---- MODULE Spec2Model ----
(***************************************************************************)
(* Model of the OpenAPI -> MCP server node (nodes/OpenapiMcpServer.ts and  *)
(* lib/mcp_tool_convert.ts).                                               *)
(*                                                                         *)
(* Spec      : the tool cache (loadTools) under concurrent callers.        *)
(* SpecKeys  : the same with tags that hold the key's separators.          *)
(* SpecRpc   : one webhook delivery: dispatch of a single request or of a  *)
(*             batch through handleMCPRequest / executeTool.               *)
(* SpecRace  : a delivery beside other writers of the cache.               *)
(* SpecTool  : one tools/call from the OpenAPI document to the response.   *)
(* SpecExec  : executeTool on any tool, arguments and credentials.         *)
(* SpecSchema: cleanProperty, createInputSchema, createToolFromOperation.  *)
(*                                                                         *)
(* nodes/OpenapiMcpServer.ts holds two snapshots of the node: lines 1-612  *)
(* (rev "A") and lines 613-1139 (rev "B").  They differ in how loadTools   *)
(* builds its cache key; everything else modelled here is the same in both.*)
(*                                                                         *)
(* A JavaScript string that the code takes apart or puts together (URL,    *)
(* tag, cache key) is a sequence of one-character strings; a string that   *)
(* is only compared (tool name, method, id) is a TLA+ string.              *)
(***************************************************************************)
EXTENDS Integers, Sequences, FiniteSets, TLC

VARIABLES
    rev,          \* which snapshot of the node is loaded: "A" or "B"
    now,          \* Date.now(), in ms since the start of the run
    toolsCache,   \* Map<string, CachedTools>: cache key -> [timestamp, tools]
    calls,        \* the loadTools invocations, by slot, in start order
    fetchLog,     \* slots that invoked getMcpTools, in invocation order
    writes,       \* number of toolsCache.set calls so far
    wpc,          \* webhook: position of the handler
    body,         \* webhook: this.getBodyData()
    creds,        \* webhook: this.getCredentials(...)
    tools,        \* webhook: the tool list loadTools resolved
    settled,      \* webhook: state of each dispatched handleMCPRequest promise
    httpLog,      \* outbound requests executeTool issued: <<item, tool name>>
    webhookResponse, \* what the webhook handed back
    cpc,          \* tool pipeline: position (idle, compiled, called, answered)
    cdoc,         \* getMcpTools: the OpenAPI document fetched
    cfilter,      \* convertOpenApiToMcpTools: its filterTag argument
    ctools,       \* convertOpenApiToMcpTools: outcome and tool list
    xtool,        \* executeTool: tool
    xcall,        \* executeTool: args, baseUrl, token
    xsent,        \* executeTool: the request handed to fetch, if any
    xresult,      \* handleMCPRequest: the response to the tools/call
    spc,          \* schema builder: which function ran (idle, cleaned, schema, tool)
    sin,          \* schema builder: the argument
    sout          \* schema builder: what the function returned

vars == <<rev, now, toolsCache, calls, fetchLog, writes,
          wpc, body, creds, tools, settled, httpLog, webhookResponse,
          cpc, cdoc, cfilter, ctools, xtool, xcall, xsent, xresult,
          spc, sin, sout>>

cacheVars == <<rev, now, toolsCache, calls, fetchLog, writes>>
rpcVars == <<wpc, body, creds, tools, settled, httpLog, webhookResponse>>
schemaVars == <<spc, sin, sout>>
callVars == <<cpc, cdoc, cfilter, ctools, xtool, xcall, xsent, xresult>>
toolVars == <<cpc, cdoc, cfilter, ctools, xtool, xcall, xsent, xresult, schemaVars>>

(***************************************************************************)
(* Bounds                                                                  *)
(***************************************************************************)
NumCalls == 2
MaxTicks == 2

Slots == 1..NumCalls
Revs == {"A", "B"}

(***************************************************************************)
(* Strings                                                                 *)
(***************************************************************************)
\* UTF-16 code unit of the characters the model uses
Code(ch) ==
    CASE ch = ":" -> 58
      [] ch = "a" -> 97
      [] ch = "b" -> 98
      [] ch = "l" -> 108
      [] ch = "u" -> 117
      [] ch = "|" -> 124

\* s < t for JavaScript strings: by code unit, a proper prefix first
RECURSIVE StrLess(_, _)
StrLess(s, t) ==
    IF t = <<>> THEN FALSE
    ELSE IF s = <<>> THEN TRUE
    ELSE IF Code(Head(s)) # Code(Head(t)) THEN Code(Head(s)) < Code(Head(t))
    ELSE StrLess(Tail(s), Tail(t))

\* insert x into the sorted array arr, after the elements not greater than it
RECURSIVE Insert(_, _)
Insert(x, arr) ==
    IF arr = <<>> THEN <<x>>
    ELSE IF StrLess(x, Head(arr)) THEN <<x>> \o arr
    ELSE <<Head(arr)>> \o Insert(x, Tail(arr))

\* Array.prototype.slice().sort() on an array of strings
RECURSIVE Sort(_)
Sort(arr) ==
    IF arr = <<>> THEN <<>> ELSE Insert(Head(arr), Sort(Tail(arr)))

\* Array.prototype.join(sep)
RECURSIVE Join(_, _)
Join(arr, sep) ==
    IF arr = <<>> THEN <<>>
    ELSE IF Len(arr) = 1 THEN Head(arr)
    ELSE Head(arr) \o sep \o Join(Tail(arr), sep)

StrAll == <<"a", "l", "l">>
TagA == <<"a">>
TagB == <<"b">>

\* a filterTag argument: string | string[]
FilterString(s) == [isArray |-> FALSE, str |-> s, arr |-> <<>>]
FilterArray(a) == [isArray |-> TRUE, str |-> <<>>, arr |-> a]

(***************************************************************************)
(* Tool cache: loadTools                                                   *)
(***************************************************************************)
TOOLS_CACHE_TTL_MS == 5 * 60000

\* rev A, lines 27-28
CacheKeyA(openapiUrl, filterTag) ==
    LET filterKey ==
            IF filterTag.isArray THEN Join(Sort(filterTag.arr), <<":">>)
            ELSE IF filterTag.str = <<>> THEN StrAll ELSE filterTag.str
    IN  openapiUrl \o <<":", ":">> \o filterKey

\* rev B, lines 637-638
CacheKeyB(openapiUrl, filterTag) ==
    LET normalizedFilterKey ==
            IF filterTag.isArray THEN Join(filterTag.arr, <<"|">>)
            ELSE filterTag.str
    IN  openapiUrl \o <<":", ":">> \o normalizedFilterKey

CacheKey(r, openapiUrl, filterTag) ==
    IF r = "A" THEN CacheKeyA(openapiUrl, filterTag)
    ELSE CacheKeyB(openapiUrl, filterTag)

\* the test of line 32 with the comparison turned round
IsHitInverted(cache, key, forceRefresh, t) ==
    /\ ~forceRefresh
    /\ key \in DOMAIN cache
    /\ (t - cache[key].timestamp) > TOOLS_CACHE_TTL_MS

\* the test of line 32 with the TTL taken in seconds: a unit slip
IsHitSeconds(cache, key, forceRefresh, t) ==
    /\ ~forceRefresh
    /\ key \in DOMAIN cache
    /\ (t - cache[key].timestamp) < TOOLS_CACHE_TTL_MS \div 1000

\* the test of line 32 with forceRefresh forgotten
IsHitIgnoringForce(cache, key, forceRefresh, t) ==
    /\ key \in DOMAIN cache
    /\ (t - cache[key].timestamp) < TOOLS_CACHE_TTL_MS

\* line 32: !forceRefresh && cached && (Date.now() - cached.timestamp) < TTL
IsHit(cache, key, forceRefresh, t) ==
    /\ ~forceRefresh
    /\ key \in DOMAIN cache
    /\ (t - cache[key].timestamp) < TOOLS_CACHE_TTL_MS

\* a cache that holds one entry only: set after clear
CachePutAlone(cache, key, t, fetched) ==
    [k \in {key} |-> [timestamp |-> t, tools |-> fetched]]

\* toolsCache.set that keeps the timestamp of the entry it replaces
CachePutKeepStamp(cache, key, t, fetched) ==
    [k \in DOMAIN cache \cup {key} |->
        IF k = key
        THEN [timestamp |-> IF key \in DOMAIN cache THEN cache[key].timestamp ELSE t,
              tools |-> fetched]
        ELSE cache[k]]

\* line 48: toolsCache.set(cacheKey, { timestamp: Date.now(), tools: fetched })
CachePut(cache, key, t, fetched) ==
    [k \in DOMAIN cache \cup {key} |->
        IF k = key THEN [timestamp |-> t, tools |-> fetched] ELSE cache[k]]

\* the catch block that rethrows whatever the cache holds
OnFailureRethrow(cache, key) ==
    [outcome |-> "threw", result |-> <<>>]

\* lines 50-59: the catch block; stale entry if any, else rethrow
OnFailure(cache, key) ==
    IF key \in DOMAIN cache
    THEN [outcome |-> "returned", result |-> cache[key].tools]
    ELSE [outcome |-> "threw", result |-> <<>>]

(***************************************************************************)
(* Inputs of the cache specification                                       *)
(***************************************************************************)
Urls == {<<"u">>}

FilterInputs ==
    {FilterArray(<<TagA, TagB>>), FilterArray(<<TagB, TagA>>)}

\* compiled tools, reduced to what the dispatcher and the executor read
ToolPets == [name |-> "pets", method |-> "GET", path |-> "/pets"]
ToolAdd == [name |-> "add_pet", method |-> "POST", path |-> "/pets"]

\* what getMcpTools may hand back for a document
ToolLists == {<<ToolPets>>, <<ToolPets, ToolAdd>>}

\* the clock advances by half a TTL at a time
TickMs == TOOLS_CACHE_TTL_MS \div 2

IdleCall ==
    [pc |-> "idle", openapiUrl |-> <<>>, filterTag |-> FilterString(<<>>),
     forceRefresh |-> FALSE, cacheKey |-> <<>>, outcome |-> "none",
     fetched |-> <<>>, result |-> <<>>, refreshed |-> FALSE,
     startNow |-> 0, endNow |-> 0, endWrites |-> 0]

\* slots that invoked getMcpTools
Fetchers == {fetchLog[i] : i \in 1..Len(fetchLog)}

(***************************************************************************)
(* loadTools, lines 25-60 (rev A) and 636-666 (rev B).  The function runs  *)
(* without interruption up to `await getMcpTools(...)` and again from the  *)
(* moment that promise settles.                                            *)
(***************************************************************************)
\* lines 25-41: entry, key, cache test, start of the refresh
LoadStart(c, openapiUrl, filterTag, forceRefresh) ==
    /\ calls[c].pc = "idle"
    /\ \A d \in Slots : d < c => calls[d].pc # "idle"
    /\ LET key == CacheKey(rev, openapiUrl, filterTag)
           started == [calls[c] EXCEPT !.openapiUrl = openapiUrl,
                                       !.filterTag = filterTag,
                                       !.forceRefresh = forceRefresh,
                                       !.cacheKey = key,
                                       !.startNow = now]
       IN  IF IsHit(toolsCache, key, forceRefresh, now)
           THEN /\ calls' = [calls EXCEPT ![c] =
                       [started EXCEPT !.pc = "done", !.outcome = "returned",
                                       !.result = toolsCache[key].tools,
                                       !.endNow = now, !.endWrites = writes]]
                /\ fetchLog' = fetchLog
           ELSE /\ calls' = [calls EXCEPT ![c] = [started EXCEPT !.pc = "await"]]
                /\ fetchLog' = Append(fetchLog, c)
    /\ UNCHANGED <<rev, now, toolsCache, writes>>
    /\ UNCHANGED rpcVars
    /\ UNCHANGED toolVars

\* lines 41-49: getMcpTools resolved with `fetched`
LoadFetched(c, fetched) ==
    /\ calls[c].pc = "await"
    /\ toolsCache' = CachePut(toolsCache, calls[c].cacheKey, now, fetched)
    /\ calls' = [calls EXCEPT ![c] =
            [@ EXCEPT !.pc = "done", !.outcome = "returned",
                      !.fetched = fetched, !.result = fetched,
                      !.refreshed = TRUE,
                      !.endNow = now, !.endWrites = writes + 1]]
    /\ writes' = writes + 1
    /\ UNCHANGED <<rev, now, fetchLog>>
    /\ UNCHANGED rpcVars
    /\ UNCHANGED toolVars

\* lines 50-59: getMcpTools rejected (fetch failed, status not ok, bad JSON)
LoadFailed(c) ==
    /\ calls[c].pc = "await"
    /\ LET r == OnFailure(toolsCache, calls[c].cacheKey)
       IN  calls' = [calls EXCEPT ![c] =
               [@ EXCEPT !.pc = "done", !.outcome = r.outcome, !.result = r.result,
                         !.endNow = now, !.endWrites = writes]]
    /\ UNCHANGED <<rev, now, toolsCache, fetchLog, writes>>
    /\ UNCHANGED rpcVars
    /\ UNCHANGED toolVars

\* the clock moves on
Tick ==
    /\ now + TickMs <= MaxTicks * TickMs
    /\ now' = now + TickMs
    /\ UNCHANGED <<rev, toolsCache, calls, fetchLog, writes>>
    /\ UNCHANGED rpcVars
    /\ UNCHANGED toolVars

\* no schema built
SchemaIdle ==
    /\ spc = "idle"
    /\ sin = <<>>
    /\ sout = <<>>

\* no document compiled, no tool executed
ToolIdle ==
    /\ SchemaIdle
    /\ cpc = "idle"
    /\ cdoc = <<>>
    /\ cfilter = <<>>
    /\ ctools = <<>>
    /\ xtool = <<>>
    /\ xcall = <<>>
    /\ xsent = <<>>
    /\ xresult = <<>>

RpcIdle ==
    /\ wpc = "idle"
    /\ body = <<>>
    /\ creds = [baseUrl |-> "", token |-> ""]
    /\ tools = <<>>
    /\ settled = <<>>
    /\ httpLog = <<>>
    /\ webhookResponse = <<>>

Init ==
    /\ rev \in Revs
    /\ now = 0
    /\ toolsCache = <<>>
    /\ calls = [c \in Slots |-> IdleCall]
    /\ fetchLog = <<>>
    /\ writes = 0
    /\ RpcIdle
    /\ ToolIdle

Next ==
    \/ \E c \in Slots, u \in Urls, f \in FilterInputs, force \in BOOLEAN :
            LoadStart(c, u, f, force)
    \/ \E c \in Slots, fetched \in ToolLists : LoadFetched(c, fetched)
    \/ \E c \in Slots : LoadFailed(c)
    \/ Tick

Spec == Init /\ [][Next]_vars

(***************************************************************************)
(* loadTools called with filters whose tags hold the separator characters  *)
(***************************************************************************)
TagColon == <<"a", ":", "b">>
TagBar == <<"a", "|", "b">>

\* filterTag arguments: the tags a and b, the one tag "a:b", the one tag
\* "a|b", and the string "a:b"
KeyFilterInputs ==
    {FilterArray(<<TagA, TagB>>), FilterArray(<<TagColon>>),
     FilterArray(<<TagBar>>), FilterString(TagColon)}

InitKeys == Init

NextKeys ==
    \/ \E c \in Slots, u \in Urls, f \in KeyFilterInputs, force \in BOOLEAN :
            LoadStart(c, u, f, force)
    \/ \E c \in Slots, fetched \in ToolLists : LoadFetched(c, fetched)
    \/ \E c \in Slots : LoadFailed(c)

SpecKeys == InitKeys /\ [][NextKeys]_vars

(***************************************************************************)
(* JSON-RPC dispatcher: handleMCPRequest, lines 250-384                    *)
(***************************************************************************)
MaxBatch == 3

\* a JSON value that `${...}` cannot turn into a string, such as
\* {"toString": 1}: the template literal throws a TypeError
Unprintable == "{\"toString\":1}"

NoParams == [name |-> "undefined"]

Request(id, method, params) == [id |-> id, method |-> method, params |-> params]

\* the requests a webhook body is made of
Requests ==
    {Request("r1", "initialize", NoParams),
     Request("r2", "tools/list", NoParams),
     Request("r3", "ping", NoParams),
     Request("r4", "resources/list", NoParams),
     Request("r5", Unprintable, NoParams),
     Request("r6", "tools/call", [name |-> "pets"]),
     Request("r7", "tools/call", [name |-> "add_pet"]),
     Request("r8", "tools/call", [name |-> Unprintable])}

\* this.getCredentials(...): absent, without base URL, complete
NoCreds == [present |-> FALSE, baseUrl |-> "", token |-> ""]
CredsInputs ==
    {NoCreds,
     [present |-> TRUE, baseUrl |-> "", token |-> "tok"],
     [present |-> TRUE, baseUrl |-> "https://api.example.com", token |-> "tok"]}

\* what the target API may answer to one outbound request
Responses ==
    {[kind |-> "transport_error"],
     [kind |-> "decode_error"],
     [kind |-> "response", status |-> 200, data |-> [t |-> "string", s |-> "pong"]],
     [kind |-> "response", status |-> 500, data |-> [t |-> "string", s |-> "oops"]]}

\* res.ok
ResOk(resp) == resp.status >= 200 /\ resp.status <= 299

\* lines 257-261
MakeError(id, code, message) ==
    [jsonrpc |-> "2.0", id |-> id, error |-> [code |-> code, message |-> message]]

MakeResult(id, result) == [jsonrpc |-> "2.0", id |-> id, result |-> result]

\* lines 280-296: one entry of the tools/list result
ListedTool(t) == [name |-> t.name, xprops |-> [method |-> t.method, path |-> t.path]]

\* line 302: tools.find((t) => t.name === toolName): index of the first match, 0 if none
FindTool(toolList, toolName) ==
    IF \E i \in 1..Len(toolList) : toolList[i].name = toolName
    THEN CHOOSE i \in 1..Len(toolList) :
             /\ toolList[i].name = toolName
             /\ \A j \in 1..(i - 1) : toolList[j].name # toolName
    ELSE 0

\* convertToMcpContent that copies mimeType without a default
ConvertToMcpContentNoDefault(data) ==
    IF data.t = "string" THEN [type |-> "text", text |-> data.s]
    ELSE IF data.t = "object" /\ data.mcpType = "image" /\ data.base64 # ""
    THEN [type |-> "image", data |-> data.base64, mimeType |-> data.mimeType]
    ELSE IF data.t = "object" /\ data.mcpType = "audio" /\ data.base64 # ""
    THEN [type |-> "audio", data |-> data.base64, mimeType |-> data.mimeType]
    ELSE [type |-> "text", text |-> <<"JSON.stringify", data>>]

\* lines 309-347: convertToMcpContent
ConvertToMcpContent(data) ==
    IF data.t = "string" THEN [type |-> "text", text |-> data.s]
    ELSE IF data.t = "object" /\ data.mcpType = "image" /\ data.base64 # ""
    THEN [type |-> "image", data |-> data.base64,
          mimeType |-> IF data.mimeType = "" THEN "image/png" ELSE data.mimeType]
    ELSE IF data.t = "object" /\ data.mcpType = "audio" /\ data.base64 # ""
    THEN [type |-> "audio", data |-> data.base64,
          mimeType |-> IF data.mimeType = "" THEN "audio/mpeg" ELSE data.mimeType]
    ELSE [type |-> "text", text |-> <<"JSON.stringify", data>>]

\* line 361: result.data?.data ?? result.data
UsefulPayload(data) ==
    IF data.t = "object" /\ data.inner.t # "undefined" /\ data.inner.t # "null"
    THEN data.inner
    ELSE data

\* a rejected promise: the handler threw outside its try block
Rejected(message) == [status |-> "rejected", reason |-> message]
Fulfilled(value) == [status |-> "fulfilled", value |-> value]
Pending(toolIndex) == [status |-> "pending", tool |-> toolIndex]

\* handleMCPRequest up to its first await (lines 254-359 and, in executeTool,
\* lines 92-98): the promise is settled at once, or waits for fetch
HandleSync(request, toolList, credentials) ==
    CASE request.method = "initialize" ->
            Fulfilled(MakeResult(request.id,
                [protocolVersion |-> "2024-11-05",
                 serverInfo |-> [name |-> "n8n-mcp-server", version |-> "1.0.0"]]))
      [] request.method = "tools/list" ->
            Fulfilled(MakeResult(request.id,
                [tools |-> [i \in 1..Len(toolList) |-> ListedTool(toolList[i])]]))
      [] request.method = "tools/call" ->
            LET toolName == request.params.name
                found == FindTool(toolList, toolName)
            IN  IF found = 0
                THEN IF toolName = Unprintable
                     THEN Rejected("Cannot convert object to primitive value")
                     ELSE Fulfilled(MakeError(request.id, -32601,
                              <<"Tool '", toolName, "' not found">>))
                ELSE IF credentials.baseUrl = ""
                THEN Fulfilled(MakeError(request.id, -32603,
                         <<"Missing baseUrl in credentials">>))
                ELSE Pending(found)
      [] request.method = "ping" ->
            Fulfilled(MakeResult(request.id, [empty |-> TRUE]))
      [] OTHER ->
            IF request.method = Unprintable
            THEN Rejected("Cannot convert object to primitive value")
            ELSE Fulfilled(MakeError(request.id, -32601,
                     <<"Method '", request.method, "' not found">>))

\* handleMCPRequest once fetch has settled (executeTool lines 227-243, then
\* lines 361-375)
HandleResponse(request, resp) ==
    IF resp.kind = "transport_error"
    THEN MakeError(request.id, -32603, <<"fetch failed">>)
    ELSE IF resp.kind = "decode_error"
    THEN MakeError(request.id, -32603, <<"Unexpected token in JSON">>)
    ELSE MakeResult(request.id,
             [content |-> <<ConvertToMcpContent(UsefulPayload(resp.data))>>])

\* the request executeTool sends for a tool (lines 92-105, 178-180, 202)
OutboundRequest(item, tool, credentials) ==
    [item |-> item, method |-> tool.method,
     url |-> <<credentials.baseUrl, tool.path>>,
     authorization |-> IF credentials.token = "" THEN <<>>
                       ELSE <<"Bearer ", credentials.token>>]

(***************************************************************************)
(* Webhook handler, lines 553-611 (rev A) and 1089-1138 (rev B)            *)
(***************************************************************************)
\* node parameters of the delivery: openapiUrl and defaultFilter
NodeUrl == <<"u">>
NodeFilter == FilterArray(<<TagA, TagB>>)

\* requests sent inside a batch: one of each way a request can settle
\* (answered at once, unknown method, rejected, tools/call found or not)
BatchRequests ==
    {r \in Requests : r.id \in {"r2", "r4", "r6", "r7", "r8"}}

\* batches of at most MaxBatch requests
Batches == UNION {[1..n -> BatchRequests] : n \in 0..MaxBatch}

\* Promise.allSettled that records a settlement at the first pending place
SettleAtFirstPending(settledNow, i, outcome) ==
    LET first == CHOOSE j \in 1..Len(settledNow) :
                     /\ settledNow[j].status = "pending"
                     /\ \A k \in 1..(j - 1) : settledNow[k].status # "pending"
    IN  [settledNow EXCEPT ![first] = outcome]

\* line 582: Promise.allSettled keeps each settlement at its promise's index
SettleAt(settledNow, i, outcome) == [settledNow EXCEPT ![i] = outcome]

\* Promise.all in place of allSettled: one rejection replaces every response
BatchResponsesAllOrNothing(settledNow) ==
    IF \E i \in 1..Len(settledNow) : settledNow[i].status = "rejected"
    THEN [i \in 1..Len(settledNow) |->
             [jsonrpc |-> "2.0", id |-> "error",
              error |-> [code |-> -32000, message |-> <<"Unhandled handler error">>]]]
    ELSE [i \in 1..Len(settledNow) |-> settledNow[i].value]

\* lines 585-596: settled.map(...)
BatchResponses(settledNow) ==
    [i \in 1..Len(settledNow) |->
        IF settledNow[i].status = "fulfilled"
        THEN settledNow[i].value
        ELSE [jsonrpc |-> "2.0", id |-> "error",
              error |-> [code |-> -32000, message |-> <<"Unhandled handler error">>,
                         data |-> settledNow[i].reason]]]

\* a dispatch that sends every tool call twice (a retry without a reason)
RECURSIVE OutboundTwice(_, _, _, _)
OutboundTwice(items, from, toolList, credentials) ==
    IF from > Len(items) THEN <<>>
    ELSE LET h == HandleSync(items[from], toolList, credentials)
             rest == OutboundTwice(items, from + 1, toolList, credentials)
             sent == [request |-> OutboundRequest(from, toolList[h.tool], credentials),
                      response |-> [kind |-> "none"]]
         IN  IF h.status = "pending" THEN <<sent, sent>> \o rest ELSE rest

\* outbound exchanges opened by the dispatch of `items`, in dispatch order
RECURSIVE Outbound(_, _, _, _)
Outbound(items, from, toolList, credentials) ==
    IF from > Len(items) THEN <<>>
    ELSE LET h == HandleSync(items[from], toolList, credentials)
             rest == Outbound(items, from + 1, toolList, credentials)
         IN  IF h.status = "pending"
             THEN <<[request |-> OutboundRequest(from, toolList[h.tool], credentials),
                     response |-> [kind |-> "none"]]>> \o rest
             ELSE rest

\* lines 554-564: the delivery arrives; loadTools(openapiUrl, filter, false)
WebhookStart(isArray, items) ==
    /\ wpc = "idle"
    /\ body' = [isArray |-> isArray, items |-> items]
    /\ LET key == CacheKey(rev, NodeUrl, NodeFilter)
       IN  IF IsHit(toolsCache, key, FALSE, now)
           THEN /\ tools' = toolsCache[key].tools
                /\ wpc' = "loaded"
           ELSE /\ tools' = tools
                /\ wpc' = "loading"
    /\ UNCHANGED <<creds, settled, httpLog, webhookResponse>>
    /\ UNCHANGED cacheVars
    /\ UNCHANGED toolVars

\* loadTools lines 41-49 inside the webhook
WebhookLoaded(fetched) ==
    /\ wpc = "loading"
    /\ toolsCache' = CachePut(toolsCache, CacheKey(rev, NodeUrl, NodeFilter), now, fetched)
    /\ writes' = writes + 1
    /\ tools' = fetched
    /\ wpc' = "loaded"
    /\ UNCHANGED <<rev, now, calls, fetchLog>>
    /\ UNCHANGED <<body, creds, settled, httpLog, webhookResponse>>
    /\ UNCHANGED toolVars

\* loadTools lines 50-59 inside the webhook
WebhookLoadFailed ==
    /\ wpc = "loading"
    /\ LET r == OnFailure(toolsCache, CacheKey(rev, NodeUrl, NodeFilter))
       IN  IF r.outcome = "returned"
           THEN tools' = r.result /\ wpc' = "loaded"
           ELSE tools' = tools /\ wpc' = "threw"
    /\ UNCHANGED <<body, creds, settled, httpLog, webhookResponse>>
    /\ UNCHANGED cacheVars
    /\ UNCHANGED toolVars

\* lines 566-582 and 603: credentials, then every handleMCPRequest is started
WebhookDispatch(credentials) ==
    /\ wpc = "loaded"
    /\ creds' = credentials
    /\ IF ~credentials.present \/ credentials.baseUrl = ""
       THEN /\ wpc' = "threw"
            /\ UNCHANGED <<settled, httpLog>>
       ELSE /\ wpc' = "awaiting"
            /\ settled' = [i \in 1..Len(body.items) |->
                               HandleSync(body.items[i], tools, credentials)]
            /\ httpLog' = Outbound(body.items, 1, tools, credentials)
    /\ UNCHANGED <<body, tools, webhookResponse>>
    /\ UNCHANGED cacheVars
    /\ UNCHANGED toolVars

\* fetch of item i settles and its handleMCPRequest runs to its end
NetReturn(i, resp) ==
    /\ wpc = "awaiting"
    /\ i \in 1..Len(settled)
    /\ settled[i].status = "pending"
    /\ settled' = SettleAt(settled, i, Fulfilled(HandleResponse(body.items[i], resp)))
    /\ httpLog' = [j \in 1..Len(httpLog) |->
                      IF httpLog[j].request.item = i
                      THEN [httpLog[j] EXCEPT !.response = resp]
                      ELSE httpLog[j]]
    /\ UNCHANGED <<wpc, body, creds, tools, webhookResponse>>
    /\ UNCHANGED cacheVars
    /\ UNCHANGED toolVars

\* lines 582-610: every promise has settled; the response is handed back
WebhookRespond ==
    /\ wpc = "awaiting"
    /\ \A i \in 1..Len(settled) : settled[i].status # "pending"
    /\ IF body.isArray
       THEN /\ webhookResponse' = BatchResponses(settled)
            /\ wpc' = "done"
       ELSE IF settled[1].status = "fulfilled"
       THEN /\ webhookResponse' = settled[1].value
            /\ wpc' = "done"
       ELSE /\ webhookResponse' = webhookResponse
            /\ wpc' = "threw"
    /\ UNCHANGED <<body, creds, tools, settled, httpLog>>
    /\ UNCHANGED cacheVars
    /\ UNCHANGED toolVars

\* the cache a delivery may find: empty, or one entry written at time 0
InitRpc ==
    /\ rev \in Revs
    /\ now \in {0, TOOLS_CACHE_TTL_MS}
    /\ toolsCache \in
           {<<>>} \cup
           {CachePut(<<>>, CacheKey(rev, NodeUrl, NodeFilter), 0, l) : l \in ToolLists}
    /\ calls = [c \in Slots |-> IdleCall]
    /\ fetchLog = <<>>
    /\ writes = 0
    /\ RpcIdle
    /\ ToolIdle

NextRpc ==
    \/ \E r \in Requests : WebhookStart(FALSE, <<r>>)
    \/ \E b \in Batches : WebhookStart(TRUE, b)
    \/ \E fetched \in ToolLists : WebhookLoaded(fetched)
    \/ WebhookLoadFailed
    \/ \E credentials \in CredsInputs : WebhookDispatch(credentials)
    \/ \E i \in 1..MaxBatch, resp \in Responses : NetReturn(i, resp)
    \/ WebhookRespond

SpecRpc == InitRpc /\ [][NextRpc]_vars

(***************************************************************************)
(* JSON values: undefined, null, numbers, strings, booleans, objects (a    *)
(* list of <<name, value>> in insertion order) and arrays                  *)
(***************************************************************************)
Undefined == [t |-> "undefined"]
Null == [t |-> "null"]
Num(s) == [t |-> "number", s |-> s]
Str(s) == [t |-> "string", s |-> s]
Bool(b) == [t |-> "boolean", b |-> b]
Obj(fields) == [t |-> "object", fields |-> fields]
Arr(items) == [t |-> "array", items |-> items]

\* obj[name] = value, the object kept as a list of <<name, value>> in
\* insertion order
SetKey(obj, name, value) ==
    IF \E i \in 1..Len(obj) : obj[i][1] = name
    THEN [i \in 1..Len(obj) |-> IF obj[i][1] = name THEN <<name, value>> ELSE obj[i]]
    ELSE Append(obj, <<name, value>>)

\* obj[name]
GetKey(obj, name) ==
    IF \E i \in 1..Len(obj) : obj[i][1] = name
    THEN obj[CHOOSE i \in 1..Len(obj) : obj[i][1] = name][2]
    ELSE Undefined

(***************************************************************************)
(* A delivery beside other writers of the cache: while it holds its tool   *)
(* list, another delivery or a forced refresh (loadOptions, lines 536 and  *)
(* 1071) may complete a refresh of the same key                            *)
(***************************************************************************)
MaxRefreshes == 2

\* a delivery whose held array is the one the cache updates in place
HeldListAliased(held, fetched) == fetched

\* line 48 stores a new {timestamp, tools} object under the key: the array a
\* delivery got from loadTools before is not modified by it
HeldList(held, fetched) == held

\* loadTools lines 41-49 of another caller, for the delivery's key
ConcurrentRefresh(fetched) ==
    /\ wpc \in {"loaded", "awaiting"}
    /\ writes < MaxRefreshes
    /\ toolsCache' = CachePut(toolsCache, CacheKey(rev, NodeUrl, NodeFilter), now, fetched)
    /\ writes' = writes + 1
    /\ tools' = HeldList(tools, fetched)
    /\ UNCHANGED <<rev, now, calls, fetchLog>>
    /\ UNCHANGED <<wpc, body, creds, settled, httpLog, webhookResponse>>
    /\ UNCHANGED toolVars

\* requests of the raced delivery: tools/list, a call of a tool every list
\* has and a call of a tool only the longer list has
RaceRequests == {r \in Requests : r.id \in {"r2", "r6", "r7"}}
RaceBatches == UNION {[1..n -> RaceRequests] : n \in 1..MaxBatch}

\* answers of the target API in the raced delivery: no answer, status 200
RaceResponses ==
    {resp \in Responses :
        resp.kind = "transport_error" \/ (resp.kind = "response" /\ ResOk(resp))}

InitRace == InitRpc

NextRace ==
    \/ \E r \in RaceRequests : WebhookStart(FALSE, <<r>>)
    \/ \E b \in RaceBatches : WebhookStart(TRUE, b)
    \/ \E fetched \in ToolLists : WebhookLoaded(fetched)
    \/ WebhookLoadFailed
    \/ \E credentials \in CredsInputs : WebhookDispatch(credentials)
    \/ \E i \in 1..MaxBatch, resp \in RaceResponses : NetReturn(i, resp)
    \/ WebhookRespond
    \/ \E fetched \in ToolLists : ConcurrentRefresh(fetched)

SpecRace == InitRace /\ [][NextRace]_vars

(***************************************************************************)
(* Converter: src/lib/mcp_tool_convert.ts                                  *)
(***************************************************************************)
MaxOps == 2

\* String.prototype.toLowerCase on the letters the model uses
LowerChar(ch) ==
    CASE ch = "A" -> "a"
      [] ch = "B" -> "b"
      [] OTHER -> ch

ToLowerCase(s) == [i \in 1..Len(s) |-> LowerChar(s[i])]

\* String.prototype.includes(sub)
Includes(s, sub) ==
    \E k \in 0..(Len(s) - Len(sub)) : SubSeq(s, k + 1, k + Len(sub)) = sub

\* String(value) for a string | string[] value: an array prints as its elements
\* joined by ","
StringOf(f) == IF f.isArray THEN Join(f.arr, <<",">>) ELSE f.str

\* Array.prototype.includes
Contains(arr, x) == \E i \in 1..Len(arr) : arr[i] = x

\* the filterTag convertOpenApiToMcpTools gets for a node parameter
\* defaultFilter.  Rev A: webhook lines 559-561, loadTools lines 27 and 39.
\* Rev B: webhook line 1091, loadTools line 648.
ConverterFilter(r, defaultFilter) ==
    IF r = "A"
    THEN LET filterValue ==
                 IF Contains(defaultFilter, StrAll) \/ Len(defaultFilter) = 0
                 THEN FilterString(StrAll)
                 ELSE FilterArray(defaultFilter)
             filterKey ==
                 IF filterValue.isArray THEN Join(Sort(filterValue.arr), <<":">>)
                 ELSE IF filterValue.str = <<>> THEN StrAll ELSE filterValue.str
         IN  IF filterKey = StrAll \/ filterKey = <<>>
             THEN FilterArray(<<>>)
             ELSE filterValue
    ELSE FilterArray(defaultFilter)

\* a path template: literal segments and {name} placeholders
Lit(s) == [kind |-> "lit", s |-> s]
Ph(s) == [kind |-> "ph", s |-> s]

\* method.toUpperCase()
ToUpperCase(method) ==
    CASE method = "get" -> "GET"
      [] method = "post" -> "POST"
      [] method = "head" -> "HEAD"
      [] method = "put" -> "PUT"
      [] method = "delete" -> "DELETE"
      [] method = "patch" -> "PATCH"
      [] method = "options" -> "OPTIONS"
      [] OTHER -> method

\* line 41
validMethods == {"get", "post", "put", "delete", "patch", "head", "options"}

\* _.snakeCase(`${method}_${operation.operationId}`), as a list of words; an
\* absent operationId prints as "undefined" (line 77; the template is never
\* empty, so the `${method}_${path}` alternative is never taken)
SnakeCase(method, operation) ==
    <<method>> \o (IF operation.hasId THEN operation.operationId ELSE <<"undefined">>)

\* the prefixes of lines 345-346
NamePrefixes == {"get", "post", "put", "delete", "patch", "api"}

\* lines 334-353 on a snake-case name: leading get_/post_/.../api_ are removed
RECURSIVE CleanToolName(_)
CleanToolName(name) ==
    IF Len(name) > 1 /\ Head(name) \in NamePrefixes
    THEN CleanToolName(Tail(name))
    ELSE name

UnnamedTool == <<"unnamed", "tool">>

\* !!v
Truthy(v) ==
    /\ v.t \notin {"undefined", "null"}
    /\ v # Bool(FALSE)
    /\ v # Num("0")
    /\ v # Str("")

\* typeof v === "object", for a value that is not null
IsObject(v) == v.t \in {"object", "array"}

\* v[key] and v?.[key] for a key that is no array index
Prop(v, key) == IF v.t = "object" THEN GetKey(v.fields, key) ELSE Undefined

\* Object.entries(v): an array lists its indices as keys
IndexKey == <<"0", "1", "2">>
ObjectEntries(v) ==
    CASE v.t = "object" -> v.fields
      [] v.t = "array" -> [i \in 1..Len(v.items) |-> <<IndexKey[i], v.items[i]>>]
      [] OTHER -> <<>>

\* the <<field, raw[field]>> of a list of field names
FieldsOf(raw, fields) == [i \in 1..Len(fields) |-> <<fields[i], Prop(raw, fields[i])>>]

\* line 147
ParameterFields ==
    <<"examples", "example", "default", "enum", "pattern", "minLength",
      "maxLength", "minimum", "maximum", "format">>

\* param.schema of a parameter descriptor
SchemaOfParameter(param) ==
    IF "schema" \in DOMAIN param THEN param.schema ELSE Undefined

\* lines 140-152: the property of one path, query or header parameter
ParameterProperty(param) ==
    LET schema == SchemaOfParameter(param)
    IN  Obj(<<<<"type", IF Truthy(Prop(schema, "type"))
                        THEN Prop(schema, "type") ELSE Str("string")>>,
              <<"description", Str(param.in \o " parameter: " \o param.name)>>>>
            \o (IF Truthy(schema)
                THEN SelectSeq(FieldsOf(schema, ParameterFields),
                               LAMBDA f : f[2] # Undefined)
                ELSE <<>>))

\* lines 132-159: the loop over the parameters
RECURSIVE ParametersInto(_, _, _)
ParametersInto(acc, parameters, from) ==
    IF from > Len(parameters) THEN acc
    ELSE LET param == parameters[from]
         IN  IF param.in \in {"path", "query", "header"} /\ param.name # ""
             THEN ParametersInto(
                      [properties |-> SetKey(acc.properties, param.name,
                                             ParameterProperty(param)),
                       required |->
                           IF "required" \in DOMAIN param /\ param.required = TRUE
                           THEN Append(acc.required, Str(param.name))
                           ELSE acc.required],
                      parameters, from + 1)
             ELSE ParametersInto(acc, parameters, from + 1)

\* lines 124-170
ExtractParametersSchema(parameters) ==
    IF Len(parameters) = 0 THEN Null
    ELSE LET r == ParametersInto([properties |-> <<>>, required |-> <<>>],
                                 parameters, 1)
         IN  IF r.properties = <<>> THEN Null
             ELSE Obj(<<<<"type", Str("object")>>,
                        <<"properties", Obj(r.properties)>>,
                        <<"required", Arr(r.required)>>>>)

\* lines 182-187
ContentTypes ==
    <<"application/json", "multipart/form-data",
      "application/x-www-form-urlencoded", "text/plain">>

\* the schema of the first value that has one, else null
FirstSchema(values) ==
    LET hits == SelectSeq(values, LAMBDA v : Truthy(Prop(v, "schema")))
    IN  IF hits = <<>> THEN Null ELSE Prop(hits[1], "schema")

\* lines 175-202
ExtractRequestBodySchema(operation) ==
    LET content == Prop(operation.requestBody, "content")
    IN  IF ~Truthy(content) THEN Null
        ELSE LET preferred ==
                     FirstSchema([i \in 1..Len(ContentTypes) |->
                                     Prop(content, ContentTypes[i])])
                 declared ==
                     FirstSchema([i \in 1..Len(ObjectEntries(content)) |->
                                     ObjectEntries(content)[i][2]])
             IN  IF preferred # Null THEN preferred ELSE declared

\* lines 273-288
AllowedFields ==
    <<"description", "examples", "example", "default", "enum", "pattern",
      "minLength", "maxLength", "minimum", "maximum", "format", "multipleOf",
      "exclusiveMinimum", "exclusiveMaximum">>

\* cleanProperty with `cleaned.items = prop.items`: the element schema is
\* copied, not cleaned
RECURSIVE CleanPropertyRawItems(_)
CleanPropertyRawItems(prop) ==
    IF ~Truthy(prop) \/ ~IsObject(prop) THEN Obj(<<<<"type", Str("string")>>>>)
    ELSE LET type == IF Truthy(Prop(prop, "type")) THEN Prop(prop, "type")
                     ELSE Str("string")
             copied == SelectSeq(FieldsOf(prop, AllowedFields),
                                 LAMBDA f : f[2] \notin {Undefined, Null})
             properties == Prop(prop, "properties")
             nested ==
                 IF Truthy(properties) /\ IsObject(properties)
                 THEN <<<<"properties",
                         Obj([i \in 1..Len(ObjectEntries(properties)) |->
                                 <<ObjectEntries(properties)[i][1],
                                   CleanPropertyRawItems(ObjectEntries(properties)[i][2])>>])>>>>
                      \o (IF Prop(prop, "required").t = "array"
                          THEN <<<<"required",
                                  Arr(SelectSeq(Prop(prop, "required").items,
                                                LAMBDA r : r.t = "string"))>>>>
                          ELSE <<>>)
                 ELSE <<>>
             items == IF Truthy(Prop(prop, "items"))
                      THEN <<<<"items", Prop(prop, "items")>>>>
                      ELSE <<>>
             CleanAll(key) ==
                 IF Prop(prop, key).t = "array"
                 THEN <<<<key, Arr([i \in 1..Len(Prop(prop, key).items) |->
                                      CleanPropertyRawItems(Prop(prop, key).items[i])])>>>>
                 ELSE <<>>
         IN  Obj(<<<<"type", type>>>> \o copied \o nested \o items
                 \o CleanAll("oneOf") \o CleanAll("anyOf") \o CleanAll("allOf"))

\* lines 263-329.  Nothing in the try block can throw on a JSON value, so the
\* result is never null and `.filter(Boolean)` keeps every member.
RECURSIVE CleanProperty(_)
CleanProperty(prop) ==
    IF ~Truthy(prop) \/ ~IsObject(prop) THEN Obj(<<<<"type", Str("string")>>>>)
    ELSE LET type == IF Truthy(Prop(prop, "type")) THEN Prop(prop, "type")
                     ELSE Str("string")
             copied == SelectSeq(FieldsOf(prop, AllowedFields),
                                 LAMBDA f : f[2] \notin {Undefined, Null})
             properties == Prop(prop, "properties")
             nested ==
                 IF Truthy(properties) /\ IsObject(properties)
                 THEN <<<<"properties",
                         Obj([i \in 1..Len(ObjectEntries(properties)) |->
                                 <<ObjectEntries(properties)[i][1],
                                   CleanProperty(ObjectEntries(properties)[i][2])>>])>>>>
                      \o (IF Prop(prop, "required").t = "array"
                          THEN <<<<"required",
                                  Arr(SelectSeq(Prop(prop, "required").items,
                                                LAMBDA r : r.t = "string"))>>>>
                          ELSE <<>>)
                 ELSE <<>>
             items == IF Truthy(Prop(prop, "items"))
                      THEN <<<<"items", CleanProperty(Prop(prop, "items"))>>>>
                      ELSE <<>>
             CleanAll(key) ==
                 IF Prop(prop, key).t = "array"
                 THEN <<<<key, Arr([i \in 1..Len(Prop(prop, key).items) |->
                                      CleanProperty(Prop(prop, key).items[i])])>>>>
                 ELSE <<>>
         IN  Obj(<<<<"type", type>>>> \o copied \o nested \o items
                 \o CleanAll("oneOf") \o CleanAll("anyOf") \o CleanAll("allOf"))

\* lines 208-212
DefaultSchema ==
    Obj(<<<<"type", Str("object")>>, <<"properties", Obj(<<>>)>>,
          <<"additionalProperties", Bool(FALSE)>>>>)

\* line 233
IsOptional(prop) ==
    Prop(prop, "optional") = Bool(TRUE) \/ Prop(prop, "optional") = Str("true")

\* the members of schema.required, [] unless it is an array (line 221)
OriginalRequired(schema) ==
    IF Prop(schema, "required").t = "array" THEN Prop(schema, "required").items
    ELSE <<>>

\* the <<key, prop>> createInputSchema visits (lines 223-225)
VisitedProperties(schema) ==
    LET source == Prop(schema, "properties")
    IN  IF Truthy(source) /\ IsObject(source)
        THEN SelectSeq(ObjectEntries(source), LAMBDA e : e[1] # "")
        ELSE <<>>

\* createInputSchema with `required: originalRequired`
CreateInputSchemaKeepRequired(schema) ==
    IF ~Truthy(schema) \/ ~IsObject(schema) THEN DefaultSchema
    ELSE LET visited == VisitedProperties(schema)
         IN  Obj(<<<<"type", Str("object")>>,
                   <<"properties",
                     Obj([i \in 1..Len(visited) |->
                             <<visited[i][1], CleanProperty(visited[i][2])>>])>>,
                   <<"required", Arr(OriginalRequired(schema))>>,
                   <<"additionalProperties", Bool(FALSE)>>>>)

\* lines 207-258
CreateInputSchema(schema) ==
    IF ~Truthy(schema) \/ ~IsObject(schema) THEN DefaultSchema
    ELSE LET visited == VisitedProperties(schema)
             required ==
                 SelectSeq(visited,
                           LAMBDA e : /\ Contains(OriginalRequired(schema), Str(e[1]))
                                      /\ ~IsOptional(e[2]))
         IN  Obj(<<<<"type", Str("object")>>,
                   <<"properties",
                     Obj([i \in 1..Len(visited) |->
                             <<visited[i][1], CleanProperty(visited[i][2])>>])>>,
                   <<"required", Arr([i \in 1..Len(required) |-> Str(required[i][1])])>>,
                   <<"additionalProperties", Bool(FALSE)>>>>)

\* lines 90-98 with the parameter schema for get, delete and head, and for
\* the other methods when no request body schema is declared
SchemaSourceByMethod(method, operation) ==
    IF method \in {"get", "delete", "head"}
       \/ ExtractRequestBodySchema(operation) = Null
    THEN ExtractParametersSchema(operation.parameters)
    ELSE ExtractRequestBodySchema(operation)

\* lines 90-98: the schema the input schema is made from
SchemaSource(method, operation) ==
    IF method = "get"
    THEN ExtractParametersSchema(operation.parameters)
    ELSE ExtractRequestBodySchema(operation)

\* lines 70-119: the tool of an operation, <<>> for null (an operationId that
\* cannot be printed throws inside the try block).  The tool's x-props are
\* method, path, operationId, tag, deprecated, summary: the operation's
\* parameters are not copied into them.
CreateToolFromOperation(path, method, operation) ==
    LET name == CleanToolName(SnakeCase(method, operation))
    IN  IF operation.unprintableId \/ name = UnnamedTool THEN <<>>
        ELSE <<[name |-> Join(name, "_"), method |-> ToUpperCase(method), path |-> path,
                hasId |-> operation.hasId, operationId |-> operation.operationId,
                tag |-> operation.tags[1], hasParameters |-> FALSE,
                parameters |-> <<>>,
                inputSchema |-> CreateInputSchema(SchemaSource(method, operation))]>>

\* lines 46-50: the operation has a tag that, in lower case, includes filterTag
PassesFilter(operation, filterTag) ==
    /\ Len(operation.tags) # 0
    /\ \E i \in 1..Len(operation.tags) :
           Includes(ToLowerCase(operation.tags[i]), StringOf(filterTag))

\* the loop body without the guards of lines 38 and 44 (as in the compiled
\* library of src/unnamed): reading a property of a non-object throws
ConvertEntryUnguarded(e, filterTag) ==
    IF e.kind = "badpath" \/ e.kind = "badop"
    THEN [threw |-> TRUE, tools |-> <<>>]
    ELSE IF e.method \notin validMethods \/ ~PassesFilter(e.operation, filterTag)
    THEN [threw |-> FALSE, tools |-> <<>>]
    ELSE [threw |-> FALSE,
          tools |-> CreateToolFromOperation(e.path, e.method, e.operation)]

\* lines 35-61 for one (path, method) entry of the document
ConvertEntry(e, filterTag) ==
    IF e.kind = "badpath" THEN [threw |-> FALSE, tools |-> <<>>]
    ELSE IF e.method \notin validMethods THEN [threw |-> FALSE, tools |-> <<>>]
    ELSE IF e.kind = "badop" THEN [threw |-> FALSE, tools |-> <<>>]
    ELSE IF ~PassesFilter(e.operation, filterTag) THEN [threw |-> FALSE, tools |-> <<>>]
    ELSE [threw |-> FALSE,
          tools |-> CreateToolFromOperation(e.path, e.method, e.operation)]

\* lines 35-64: the loop over the entries, left at the first throw
RECURSIVE ConvertEntries(_, _)
ConvertEntries(entries, filterTag) ==
    IF entries = <<>> THEN [threw |-> FALSE, tools |-> <<>>]
    ELSE LET first == ConvertEntry(Head(entries), filterTag)
             rest == ConvertEntries(Tail(entries), filterTag)
         IN  IF first.threw THEN first
             ELSE [threw |-> rest.threw, tools |-> first.tools \o rest.tools]

\* lines 20-65
ConvertOpenApiToMcpTools(openApiJson, filterTag) ==
    IF openApiJson.kind # "object" THEN [threw |-> FALSE, tools |-> <<>>]
    ELSE ConvertEntries(openApiJson.entries, filterTag)

(***************************************************************************)
(* Inputs of the converter                                                 *)
(***************************************************************************)
TagAb == <<"A", "b">>

\* an operation without a requestBody
Operation(hasId, operationId, tags, parameters) ==
    [hasId |-> hasId, operationId |-> operationId, unprintableId |-> FALSE,
     tags |-> tags, parameters |-> parameters, requestBody |-> Undefined]

\* requestBody: {content: {[contentType]: {schema}}}
RequestBody(contentType, schema) ==
    Obj(<<<<"content", Obj(<<<<contentType, Obj(<<<<"schema", schema>>>>)>>>>)>>>>)

WithRequestBody(operation, requestBody) ==
    [operation EXCEPT !.requestBody = requestBody]

Entry(kind, path, method, operation) ==
    [kind |-> kind, path |-> path, method |-> method, operation |-> operation]

PathPetId == <<Lit("pets"), Ph("id")>>
ParamId == [name |-> "id", in |-> "path", required |-> TRUE]

\* well-formed operations: GET /pets/{id} "getPetById" tagged "Ab", GET /users
\* tagged "b" and GET /orders tagged "Ab" (neither has an operationId),
\* POST /pets "addPet" without tags
EntryPetById ==
    Entry("op", PathPetId, "get",
          Operation(TRUE, <<"get", "pet", "by", "id">>, <<TagAb>>, <<ParamId>>))
EntryUsers == Entry("op", <<Lit("users")>>, "get", Operation(FALSE, <<>>, <<TagB>>, <<>>))
EntryOrders == Entry("op", <<Lit("orders")>>, "get", Operation(FALSE, <<>>, <<TagAb>>, <<>>))
EntryAddPet == Entry("op", <<Lit("pets")>>, "post", Operation(TRUE, <<"add", "pet">>, <<>>, <<>>))

\* malformed entries: a path whose value is no object, a key that is no HTTP
\* method, an operation that is no object, an operationId that cannot be printed
EntryBadPath == Entry("badpath", <<Lit("bad")>>, "", Operation(FALSE, <<>>, <<>>, <<>>))
EntryBadMethod == Entry("op", <<Lit("traced")>>, "trace", Operation(FALSE, <<>>, <<TagAb>>, <<>>))
EntryBadOp == Entry("badop", <<Lit("nulled")>>, "get", Operation(FALSE, <<>>, <<>>, <<>>))
EntryBadId ==
    Entry("op", <<Lit("odd")>>, "get",
          [Operation(TRUE, <<>>, <<TagAb>>, <<>>) EXCEPT !.unprintableId = TRUE])

GoodEntries == {EntryPetById, EntryUsers, EntryOrders, EntryAddPet}
BadEntries == {EntryBadPath, EntryBadMethod, EntryBadOp, EntryBadId}
Entries == GoodEntries \cup BadEntries

\* the keys of an object are distinct: no entry occurs twice
EntryLists ==
    {l \in UNION {[1..n -> Entries] : n \in 0..MaxOps} :
        \A i, j \in 1..Len(l) : i # j => l[i] # l[j]}

\* documents: null or a string, an object without paths, an object with paths
Documents ==
    {[kind |-> "nonobject", entries |-> <<>>], [kind |-> "object", entries |-> <<>>]}
        \cup {[kind |-> "object", entries |-> l] : l \in EntryLists \ {<<>>}}

\* values of the node parameter defaultFilter
DefaultFilters == {<<>>, <<StrAll>>, <<TagA>>, <<<<"A">>>>, <<TagA, TagB>>}

(***************************************************************************)
(* Executor: executeTool, lines 86-243                                     *)
(***************************************************************************)

\* encodeURIComponent(String(value)); an object prints as [object Object]
EncodeURIComponent(value) ==
    CASE value.t = "object" -> "%5Bobject%20Object%5D"
      [] value.s = "a/b" -> "a%2Fb"
      [] OTHER -> value.s

\* the names call arguments and parameter descriptors use, in the order the
\* arguments object lists them
ArgOrder == <<"id", "Authorization", "q", "a+b">>
ArgNames == {ArgOrder[i] : i \in 1..Len(ArgOrder)}

\* baseUrl.endsWith("/") ? baseUrl.slice(0, -1) : baseUrl (line 178)
NormalizedBase(baseUrl) ==
    CASE baseUrl = "https://api.example.com/" -> "https://api.example.com"
      [] OTHER -> baseUrl

\* the arguments object as a list of its defined entries
RECURSIVE ArgsObject(_, _)
ArgsObject(args, from) ==
    IF from > Len(ArgOrder) THEN <<>>
    ELSE (IF args[ArgOrder[from]] = Undefined THEN <<>>
          ELSE <<<<ArgOrder[from], args[ArgOrder[from]]>>>>)
         \o ArgsObject(args, from + 1)

\* path.includes(`{${name}}`)
HasPlaceholder(path, name) == \E i \in 1..Len(path) : path[i] = Ph(name)

\* new RegExp(`{${name}}`, "g") matches the text {placeholder}: the name is
\* read as a pattern, so "a+b" matches {ab} and {aab} but not {a+b}, while a
\* name of letters matches itself only
PatternMatches(name, placeholder) ==
    CASE name = "a+b" -> placeholder \in {"ab", "aab"}
      [] OTHER -> placeholder = name

\* path.replace(new RegExp(`{${name}}`, "g"), encodeURIComponent(String(value)))
ReplacePlaceholder(path, name, value) ==
    [i \in 1..Len(path) |->
        IF path[i].kind = "ph" /\ PatternMatches(name, path[i].s)
        THEN Lit(EncodeURIComponent(value))
        ELSE path[i]]

\* lines 116-163: one parameter descriptor.  In the default case a property
\* cannot be set on a number or string payload: the TypeError is caught at
\* line 161 and the parameter is skipped.
ApplyParameter(st, p, args) ==
    LET name == p.name
        value == args[name]
    IN  IF value = Undefined THEN st
        ELSE CASE p.in = "path" ->
                    IF HasPlaceholder(st.path, name)
                    THEN [st EXCEPT !.path = ReplacePlaceholder(st.path, name, value)]
                    ELSE [st EXCEPT !.query = SetKey(st.query, name, value)]
               [] p.in = "query" -> [st EXCEPT !.query = SetKey(st.query, name, value)]
               [] p.in = "header" -> [st EXCEPT !.headers = SetKey(st.headers, name, value)]
               [] p.in = "cookie" -> [st EXCEPT !.cookies = Append(st.cookies, <<name, value>>)]
               [] p.in \in {"body", "requestBody"} -> [st EXCEPT !.bodyPayload = value]
               [] OTHER ->
                    IF st.bodyPayload = Undefined
                    THEN [st EXCEPT !.bodyPayload = Obj(<<<<name, value>>>>)]
                    ELSE IF st.bodyPayload.t = "object"
                    THEN [st EXCEPT !.bodyPayload =
                              Obj(SetKey(st.bodyPayload.fields, name, value))]
                    ELSE st

\* lines 114-168: the loop over x.parameters, or every argument as the body
RECURSIVE ApplyParameters(_, _, _, _)
ApplyParameters(st, parameters, from, args) ==
    IF from > Len(parameters) THEN st
    ELSE ApplyParameters(ApplyParameter(st, parameters[from], args),
                         parameters, from + 1, args)

\* cookies.join("; ") of `${name}=${value}`
CookieHeader(cookies) == [t |-> "cookies", list |-> cookies]

\* lines 92-225: the request executeTool hands to fetch, or the throw of
\* line 97
ExecuteTool(tool, args, baseUrl, token) ==
    IF baseUrl = "" THEN [threw |-> TRUE]
    ELSE
    LET start == [path |-> tool.path,
                  query |-> <<>>,
                  headers |-> <<<<"Content-Type", Str("application/json")>>>>
                              \o (IF token = "" THEN <<>>
                                  ELSE <<<<"Authorization", Str("Bearer " \o token)>>>>),
                  cookies |-> <<>>,
                  bodyPayload |-> Undefined]
        st == IF tool.hasParameters
              THEN ApplyParameters(start, tool.parameters, 1, args)
              ELSE [start EXCEPT !.bodyPayload = Obj(ArgsObject(args, 1))]
        headers == IF Len(st.cookies) > 0
                   THEN SetKey(st.headers, "Cookie", CookieHeader(st.cookies))
                   ELSE st.headers
        hasBody == tool.method \in {"POST", "PUT", "PATCH", "DELETE"}
                       /\ st.bodyPayload # Undefined
    IN  [threw |-> FALSE,
         method |-> tool.method,
         url |-> [base |-> NormalizedBase(baseUrl),
                  path |-> st.path,
                  query |-> [i \in 1..Len(st.query) |->
                                <<st.query[i][1], EncodeURIComponent(st.query[i][2])>>]],
         headers |-> headers,
         body |-> IF ~hasBody THEN Undefined
                  ELSE IF GetKey(headers, "Content-Type") =
                              Str("application/x-www-form-urlencoded")
                  THEN [t |-> "urlencoded", value |-> st.bodyPayload]
                  ELSE [t |-> "json", value |-> st.bodyPayload]]

(***************************************************************************)
(* One tools/call from the document to the response: getMcpTools compiles  *)
(* the document, handleMCPRequest finds the tool, executeTool builds the   *)
(* request, and the answer of the target API becomes the result            *)
(***************************************************************************)
PayloadObject(mcpType, base64, mimeType, inner) ==
    [t |-> "object", mcpType |-> mcpType, base64 |-> base64,
     mimeType |-> mimeType, inner |-> inner]

\* bodies the target API may answer with (res.json() or res.text())
Payloads ==
    {[t |-> "string", s |-> "pong"],
     Null,
     PayloadObject("image", "AAAA", "", Undefined),
     PayloadObject("image", "AAAA", "image/jpeg", Undefined),
     PayloadObject("image", "", "", Undefined),
     PayloadObject("audio", "AAAA", "", Undefined),
     PayloadObject("", "", "", Undefined),
     PayloadObject("", "", "", [t |-> "string", s |-> "pong"]),
     PayloadObject("", "", "", PayloadObject("audio", "AAAA", "audio/wav", Undefined)),
     PayloadObject("image", "AAAA", "", Null)}

ToolResponses ==
    {[kind |-> "transport_error"]}
        \cup {[kind |-> "response", status |-> 200, data |-> p] : p \in Payloads}

\* credentials of the scenario: base URL and token
ToolCreds == [present |-> TRUE, baseUrl |-> "https://api.example.com", token |-> "tok"]

NoArgs == [n \in ArgNames |-> Undefined]

\* params.arguments of the call: {}, {id: 42}, {id: "a/b"}
CallArgs ==
    {NoArgs, [NoArgs EXCEPT !["id"] = Num("42")], [NoArgs EXCEPT !["id"] = Str("a/b")]}

\* params.name of the call
CallNames == {"pet_by_id", "undefined", "nope"}

\* getMcpTools, lines 358-379, for a document fetched with status 200
Compile(doc, defaultFilter) ==
    /\ cpc = "idle"
    /\ cdoc' = doc
    /\ cfilter' = [requested |-> defaultFilter,
                   passed |-> ConverterFilter(rev, defaultFilter)]
    /\ ctools' = ConvertOpenApiToMcpTools(doc, ConverterFilter(rev, defaultFilter))
    /\ cpc' = "compiled"
    /\ UNCHANGED <<xtool, xcall, xsent, xresult>>
    /\ UNCHANGED cacheVars
    /\ UNCHANGED rpcVars
    /\ UNCHANGED schemaVars

\* handleMCPRequest, tools/list (lines 275-298)
ToolsList ==
    /\ cpc = "compiled"
    /\ ~ctools.threw
    /\ xresult' = HandleSync(Request("r0", "tools/list", NoParams),
                             ctools.tools, ToolCreds).value
    /\ cpc' = "listed"
    /\ UNCHANGED <<cdoc, cfilter, ctools, xtool, xcall, xsent>>
    /\ UNCHANGED cacheVars
    /\ UNCHANGED rpcVars
    /\ UNCHANGED schemaVars

\* handleMCPRequest, tools/call up to fetch (lines 300-359, executeTool 92-227)
ToolCall(name, args) ==
    /\ cpc = "compiled"
    /\ ~ctools.threw
    /\ LET request == Request("r1", "tools/call", [name |-> name])
           h == HandleSync(request, ctools.tools, ToolCreds)
       IN  /\ xcall' = [request |-> request, args |-> args,
                        baseUrl |-> ToolCreds.baseUrl, token |-> ToolCreds.token,
                        answer |-> [kind |-> "none"]]
           /\ IF h.status = "pending"
              THEN /\ xtool' = ctools.tools[h.tool]
                   /\ xsent' = ExecuteTool(ctools.tools[h.tool], args,
                                           ToolCreds.baseUrl, ToolCreds.token)
                   /\ xresult' = xresult
                   /\ cpc' = "called"
              ELSE /\ xresult' = h.value
                   /\ cpc' = "answered"
                   /\ UNCHANGED <<xtool, xsent>>
    /\ UNCHANGED <<cdoc, cfilter, ctools>>
    /\ UNCHANGED cacheVars
    /\ UNCHANGED rpcVars
    /\ UNCHANGED schemaVars

\* fetch settles: executeTool lines 227-243, handleMCPRequest lines 361-375
ToolAnswer(resp) ==
    /\ cpc = "called"
    /\ xcall' = [xcall EXCEPT !.answer = resp]
    /\ xresult' = HandleResponse(xcall.request, resp)
    /\ cpc' = "answered"
    /\ UNCHANGED <<cdoc, cfilter, ctools, xtool, xsent>>
    /\ UNCHANGED cacheVars
    /\ UNCHANGED rpcVars
    /\ UNCHANGED schemaVars

InitTool ==
    /\ rev \in Revs
    /\ now = 0
    /\ toolsCache = <<>>
    /\ calls = [c \in Slots |-> IdleCall]
    /\ fetchLog = <<>>
    /\ writes = 0
    /\ RpcIdle
    /\ ToolIdle

NextTool ==
    \/ \E doc \in Documents, f \in DefaultFilters : Compile(doc, f)
    \/ ToolsList
    \/ \E name \in CallNames, args \in CallArgs : ToolCall(name, args)
    \/ \E resp \in ToolResponses : ToolAnswer(resp)

SpecTool == InitTool /\ [][NextTool]_vars

(***************************************************************************)
(* executeTool on its own: any tool, arguments and credentials             *)
(***************************************************************************)
Descriptor(name, in) == [name |-> name, in |-> in]

ExecTool(method, path, hasParameters, parameters) ==
    [name |-> "tool", method |-> method, path |-> path,
     hasParameters |-> hasParameters, parameters |-> parameters]

\* tools as executeTool may be handed them: with and without x-props.parameters
ExecTools ==
    {ExecTool("GET", PathPetId, FALSE, <<>>),
     ExecTool("GET", PathPetId, TRUE, <<Descriptor("id", "path")>>),
     ExecTool("GET", PathPetId, TRUE, <<Descriptor("id", "path"), Descriptor("q", "query")>>),
     ExecTool("GET", <<Lit("pets")>>, TRUE,
              <<Descriptor("id", "path"), Descriptor("Authorization", "header")>>),
     ExecTool("POST", <<Lit("pets")>>, TRUE,
              <<Descriptor("q", "cookie"), Descriptor("id", "body")>>),
     ExecTool("POST", <<Lit("pets")>>, TRUE,
              <<Descriptor("id", "formData"), Descriptor("q", "formData")>>),
     ExecTool("POST", <<Lit("pets")>>, TRUE,
              <<Descriptor("q", "formData"), Descriptor("id", "body")>>),
     ExecTool("POST", <<Lit("pets")>>, TRUE,
              <<Descriptor("id", "body"), Descriptor("q", "formData")>>),
     ExecTool("GET", <<Lit("items"), Ph("a+b")>>, TRUE, <<Descriptor("a+b", "path")>>)}

ArgValues == {Undefined, Num("42"), Str("a/b"), Obj(<<<<"k", Num("1")>>>>)}

BaseUrls == {"", "https://api.example.com", "https://api.example.com/"}
Tokens == {"", "tok"}

\* handleMCPRequest lines 350-359 and 370-375 around executeTool up to fetch
Execute(args, baseUrl, token) ==
    /\ cpc = "given"
    /\ LET request == Request("r1", "tools/call", [name |-> xtool.name])
           sent == ExecuteTool(xtool, args, baseUrl, token)
       IN  /\ xcall' = [request |-> request, args |-> args,
                        baseUrl |-> baseUrl, token |-> token,
                        answer |-> [kind |-> "none"]]
           /\ xsent' = sent
           /\ IF sent.threw
              THEN /\ xresult' = MakeError(request.id, -32603,
                                           <<"Missing baseUrl in credentials">>)
                   /\ cpc' = "answered"
              ELSE /\ xresult' = xresult
                   /\ cpc' = "called"
    /\ UNCHANGED <<cdoc, cfilter, ctools, xtool>>
    /\ UNCHANGED cacheVars
    /\ UNCHANGED rpcVars
    /\ UNCHANGED schemaVars

InitExec ==
    /\ rev \in Revs
    /\ now = 0
    /\ toolsCache = <<>>
    /\ calls = [c \in Slots |-> IdleCall]
    /\ fetchLog = <<>>
    /\ writes = 0
    /\ RpcIdle
    /\ SchemaIdle
    /\ cpc = "given"
    /\ cdoc = <<>>
    /\ cfilter = <<>>
    /\ ctools = <<>>
    /\ xtool \in ExecTools
    /\ xcall = <<>>
    /\ xsent = <<>>
    /\ xresult = <<>>

NextExec ==
    \/ \E args \in [ArgNames -> ArgValues], baseUrl \in BaseUrls, token \in Tokens :
            Execute(args, baseUrl, token)
    \/ \E resp \in ToolResponses : ToolAnswer(resp)

SpecExec == InitExec /\ [][NextExec]_vars

(***************************************************************************)
(* The schema builder on its own: cleanProperty, createInputSchema and     *)
(* createToolFromOperation on any property, schema and operation           *)
(***************************************************************************)
\* fields a raw property schema may have, in the order it lists them
PropFields ==
    <<<<"type", Str("integer")>>,
      <<"description", Str("d")>>,
      <<"example", Num("1")>>,
      <<"x-internal", Bool(TRUE)>>,
      <<"optional", Bool(TRUE)>>,
      <<"properties",
        Obj(<<<<"inner", Obj(<<<<"type", Str("string")>>,
                               <<"x-internal", Bool(TRUE)>>,
                               <<"items", Obj(<<<<"nullable", Bool(TRUE)>>>>)>>>>)>>,
              <<"plain", Str("text")>>>>)>>,
      <<"required", Arr(<<Str("inner"), Num("1")>>)>>,
      <<"items", Obj(<<<<"type", Str("string")>>, <<"readOnly", Bool(TRUE)>>>>)>>,
      <<"oneOf", Arr(<<Obj(<<<<"title", Str("t")>>, <<"minimum", Num("0")>>>>), Null>>)>>>>
PropKeys == {PropFields[i][1] : i \in 1..Len(PropFields)}

\* arguments of cleanProperty: values that are no object, arrays, and the
\* objects with any of the fields above
RawProps ==
    {Undefined, Null, Str("text"), Str(""), Num("0"), Num("7"), Bool(TRUE),
     Bool(FALSE), Arr(<<>>), Arr(<<Str("x")>>)}
        \cup {Obj(SelectSeq(PropFields, LAMBDA f : f[1] \in keys)) :
                 keys \in SUBSET PropKeys}

\* a property with or without the flag `optional`
OptionalFlags == {Undefined, Bool(TRUE), Str("true"), Bool(FALSE)}
PropWith(flag) ==
    Obj(<<<<"type", Str("integer")>>>>
        \o (IF flag = Undefined THEN <<>> ELSE <<<<"optional", flag>>>>))

\* values of schema.required
RequiredValues ==
    {Undefined, Arr(<<>>), Arr(<<Str("a")>>), Arr(<<Str("a"), Str("b")>>),
     Arr(<<Str("a"), Str("c"), Str("")>>), Str("a")}

\* arguments of createInputSchema: values that are no object, {} and the
\* schemas with the properties a, b and "" and any of the required lists
SourceSchemas ==
    {Undefined, Null, Str("text"), Obj(<<>>)}
        \cup {Obj(<<<<"type", Str("object")>>,
                    <<"properties", Obj(<<<<"a", PropWith(fa)>>, <<"b", pb>>,
                                          <<"", PropWith(Undefined)>>>>)>>>>
                  \o (IF rq = Undefined THEN <<>> ELSE <<<<"required", rq>>>>)) :
                 fa \in OptionalFlags,
                 pb \in {PropWith(Undefined), PropWith(Bool(TRUE)), Str("text"), Null},
                 rq \in RequiredValues}

\* operations handed to createToolFromOperation: a method, parameters and a
\* request body
ParamQ ==
    [name |-> "q", in |-> "query", required |-> FALSE,
     schema |-> Obj(<<<<"type", Str("integer")>>, <<"example", Num("1")>>,
                      <<"x-internal", Bool(TRUE)>>>>)]
ParamSession == [name |-> "session", in |-> "cookie", required |-> TRUE]
BodySchema ==
    Obj(<<<<"type", Str("object")>>,
          <<"properties", Obj(<<<<"name", PropWith(Undefined)>>>>)>>,
          <<"required", Arr(<<Str("name")>>)>>>>)
SchemaMethods == {"get", "delete", "head", "post", "put"}
SchemaParameters == {<<>>, <<ParamId>>, <<ParamId, ParamQ>>, <<ParamSession>>}
SchemaBodies ==
    {Undefined, Obj(<<>>), RequestBody("application/json", BodySchema),
     RequestBody("text/csv", BodySchema)}
SchemaEntries ==
    {Entry("op", PathPetId, method,
           WithRequestBody(Operation(TRUE, <<"do", "it">>, <<TagA>>, parameters),
                           requestBody)) :
        method \in SchemaMethods, parameters \in SchemaParameters,
        requestBody \in SchemaBodies}

\* cleanProperty(prop)
Clean(prop) ==
    /\ spc = "idle"
    /\ sin' = prop
    /\ sout' = CleanProperty(prop)
    /\ spc' = "cleaned"
    /\ UNCHANGED <<cacheVars, rpcVars, callVars>>

\* createInputSchema(schema)
CreateInput(schema) ==
    /\ spc = "idle"
    /\ sin' = schema
    /\ sout' = CreateInputSchema(schema)
    /\ spc' = "schema"
    /\ UNCHANGED <<cacheVars, rpcVars, callVars>>

\* createToolFromOperation(path, method, operation)
CreateTool(e) ==
    /\ spc = "idle"
    /\ sin' = e
    /\ sout' = CreateToolFromOperation(e.path, e.method, e.operation)
    /\ spc' = "tool"
    /\ UNCHANGED <<cacheVars, rpcVars, callVars>>

InitSchema == InitTool

NextSchema ==
    \/ \E prop \in RawProps : Clean(prop)
    \/ \E schema \in SourceSchemas : CreateInput(schema)
    \/ \E e \in SchemaEntries : CreateTool(e)

SpecSchema == InitSchema /\ [][NextSchema]_vars

(***************************************************************************)
(* Claims about the tool cache (checked under Spec)                        *)
(***************************************************************************)
\* c takes its first step (entry of loadTools) in this transition
Starts(c) == calls[c].pc = "idle" /\ calls'[c].pc # "idle"

\* the refresh of c fails in this transition
FailsNow(c) == calls[c].pc = "await" /\ calls'[c].pc = "done" /\ ~calls'[c].refreshed

\* the refresh of c succeeds in this transition
FetchedNow(c) == calls[c].pc = "await" /\ calls'[c].pc = "done" /\ calls'[c].refreshed

SameRequest(c, d) ==
    /\ calls[c].openapiUrl = calls[d].openapiUrl
    /\ calls[c].filterTag = calls[d].filterTag

\* C1: a loadTools call with forceRefresh = false that finds an entry for its
\* key younger than the TTL returns that entry's tool list unchanged, does not
\* invoke getMcpTools and leaves the cache as it was.
C1_FreshEntryServedWithoutRefresh ==
    [][\A c \in Slots :
        LET k == calls'[c].cacheKey
        IN  (/\ Starts(c)
             /\ ~calls'[c].forceRefresh
             /\ k \in DOMAIN toolsCache
             /\ now - toolsCache[k].timestamp < TOOLS_CACHE_TTL_MS)
            => /\ calls'[c].pc = "done"
               /\ calls'[c].outcome = "returned"
               /\ calls'[c].result = toolsCache[k].tools
               /\ fetchLog' = fetchLog
               /\ toolsCache' = toolsCache]_vars

\* C1 witness: a non-forced call was served from an entry aged half a TTL
C1_Witness ==
    \E c \in Slots :
        /\ calls[c].pc = "done"
        /\ ~calls[c].forceRefresh
        /\ c \notin Fetchers
        /\ calls[c].cacheKey \in DOMAIN toolsCache
        /\ calls[c].result = toolsCache[calls[c].cacheKey].tools
        /\ calls[c].endNow - toolsCache[calls[c].cacheKey].timestamp = TickMs

\* C2 (as stated): any two non-forced loadTools calls for the same URL and
\* filter started within one TTL window, the first of which had to fetch,
\* return identical lists and cause exactly one upstream fetch, whether the
\* second starts after the first returned or while it still awaits its fetch.
C2_OneFetchForEveryInterleaving ==
    \A c1 \in Slots, c2 \in Slots :
        (/\ c1 < c2
         /\ calls[c1].pc = "done" /\ calls[c1].outcome = "returned"
         /\ calls[c2].pc = "done" /\ calls[c2].outcome = "returned"
         /\ ~calls[c1].forceRefresh /\ ~calls[c2].forceRefresh
         /\ SameRequest(c1, c2)
         /\ calls[c2].startNow - calls[c1].startNow < TOOLS_CACHE_TTL_MS
         /\ c1 \in Fetchers)
        => /\ calls[c2].result = calls[c1].result
           /\ c2 \notin Fetchers

\* C2 (amended): when a non-forced call has refreshed the entry and returned,
\* a later non-forced call for the same URL and filter that starts less than
\* one TTL after that return is served from the cache without an upstream
\* fetch, and it returns the first call's list unless another refresh has
\* been written in between.
C2_RepeatAfterReturnServedFromCache ==
    [][\A c1 \in Slots, c2 \in Slots :
        (/\ calls[c1].pc = "done" /\ calls[c1].refreshed
         /\ ~calls[c1].forceRefresh
         /\ Starts(c2)
         /\ ~calls'[c2].forceRefresh
         /\ calls'[c2].openapiUrl = calls[c1].openapiUrl
         /\ calls'[c2].filterTag = calls[c1].filterTag
         /\ now - calls[c1].endNow < TOOLS_CACHE_TTL_MS)
        => /\ calls'[c2].pc = "done"
           /\ calls'[c2].outcome = "returned"
           /\ fetchLog' = fetchLog
           /\ (writes = calls[c1].endWrites
                 => calls'[c2].result = calls[c1].result)]_vars

\* C2 witness: the second call started half a TTL after the first returned
\* and got the first call's list without fetching
C2_Witness ==
    \E c1 \in Slots, c2 \in Slots :
        /\ c1 < c2
        /\ calls[c1].pc = "done" /\ calls[c1].refreshed /\ ~calls[c1].forceRefresh
        /\ calls[c2].pc = "done" /\ ~calls[c2].forceRefresh
        /\ SameRequest(c1, c2)
        /\ calls[c2].startNow = calls[c1].endNow + TickMs
        /\ c2 \notin Fetchers
        /\ Len(fetchLog) = 1
        /\ calls[c2].result = calls[c1].result

\* C3: when the refresh fails, loadTools returns the tool list of the entry
\* its key has at that moment, whatever its age, and does not raise; with no
\* entry for the key the failure is raised and no entry is created.
C3_StaleOnError ==
    [][\A c \in Slots :
        LET k == calls[c].cacheKey
        IN  FailsNow(c)
            => /\ toolsCache' = toolsCache
               /\ IF k \in DOMAIN toolsCache
                  THEN /\ calls'[c].outcome = "returned"
                       /\ calls'[c].result = toolsCache[k].tools
                  ELSE /\ calls'[c].outcome = "threw"
                       /\ k \notin DOMAIN toolsCache']_vars

\* C3 witness: a failed refresh returned an entry that had outlived the TTL
C3_Witness ==
    \E c \in Slots :
        /\ calls[c].pc = "done"
        /\ c \in Fetchers
        /\ ~calls[c].refreshed
        /\ calls[c].outcome = "returned"
        /\ calls[c].cacheKey \in DOMAIN toolsCache
        /\ calls[c].result = toolsCache[calls[c].cacheKey].tools
        /\ calls[c].endNow - toolsCache[calls[c].cacheKey].timestamp
               >= TOOLS_CACHE_TTL_MS

\* C4: a call with forceRefresh = true, or with no entry for its key, or with
\* an entry whose age is not below the TTL, invokes getMcpTools; when that
\* succeeds the entry is overwritten with the fetched list and the current
\* time, and the fetched list is returned.
C4_RefreshOverwritesAndReturnsFresh ==
    [][\A c \in Slots :
        /\ LET k == calls'[c].cacheKey
           IN  (/\ Starts(c)
                /\ \/ calls'[c].forceRefresh
                   \/ k \notin DOMAIN toolsCache
                   \/ ~(now - toolsCache[k].timestamp < TOOLS_CACHE_TTL_MS))
               => /\ calls'[c].pc = "await"
                  /\ fetchLog' = Append(fetchLog, c)
        /\ FetchedNow(c)
               => /\ calls[c].cacheKey \in DOMAIN toolsCache'
                  /\ toolsCache'[calls[c].cacheKey] =
                         [timestamp |-> now, tools |-> calls'[c].fetched]
                  /\ calls'[c].outcome = "returned"
                  /\ calls'[c].result = calls'[c].fetched]_vars

\* C4 witness: a forced refresh replaced a still fresh entry by another list
C4_Witness ==
    \E c1 \in Slots, c2 \in Slots :
        /\ calls[c1].refreshed /\ calls[c2].refreshed
        /\ calls[c2].forceRefresh
        /\ calls[c1].cacheKey = calls[c2].cacheKey
        /\ calls[c1].endWrites < calls[c2].endWrites
        /\ calls[c2].startNow = calls[c1].endNow + TickMs
        /\ calls[c2].result # calls[c1].result
        /\ toolsCache[calls[c2].cacheKey] =
               [timestamp |-> calls[c2].endNow, tools |-> calls[c2].result]

\* the arrays a and b hold the same tags, each as often
IsPermutation(a, b) ==
    /\ Len(a) = Len(b)
    /\ \A i \in 1..Len(a) :
           Cardinality({j \in 1..Len(a) : a[j] = a[i]})
               = Cardinality({j \in 1..Len(b) : b[j] = a[i]})

\* C5: two loadTools calls with the same URL whose tag lists are permutations
\* of each other use the same cache key.
C5_KeyIgnoresTagOrder ==
    \A c1 \in Slots, c2 \in Slots :
        (/\ calls[c1].pc # "idle" /\ calls[c2].pc # "idle"
         /\ calls[c1].openapiUrl = calls[c2].openapiUrl
         /\ calls[c1].filterTag.isArray /\ calls[c2].filterTag.isArray
         /\ IsPermutation(calls[c1].filterTag.arr, calls[c2].filterTag.arr))
        => calls[c1].cacheKey = calls[c2].cacheKey

(***************************************************************************)
(* Claims about the dispatcher and the webhook (checked under SpecRpc)     *)
(***************************************************************************)
\* handleMCPRequest from entry to settlement, given the answer fetch gets
HandleMCPRequest(request, toolList, credentials, resp) ==
    LET h == HandleSync(request, toolList, credentials)
    IN  IF h.status = "pending" /\ resp.kind # "none"
        THEN Fulfilled(HandleResponse(request, resp))
        ELSE h

\* the answer the target API gave to item i, if the item reached it
ResponseOf(i) ==
    IF \E j \in 1..Len(httpLog) : httpLog[j].request.item = i
    THEN (CHOOSE e \in {httpLog[j] : j \in 1..Len(httpLog)} : e.request.item = i).response
    ELSE [kind |-> "none"]

\* r is a JSON-RPC envelope: version, id, and one of result and error
IsEnvelope(r) ==
    /\ {"jsonrpc", "id"} \subseteq DOMAIN r
    /\ r.jsonrpc = "2.0"
    /\ ("result" \in DOMAIN r) # ("error" \in DOMAIN r)

IsErrorWith(r, code) == "error" \in DOMAIN r /\ r.error.code = code

BatchDone == wpc = "done" /\ body.isArray

\* item i of the body calls a tool that the resolved tool list does not hold
CallsUnknownTool(i) ==
    /\ body.items[i].method = "tools/call"
    /\ FindTool(tools, body.items[i].params.name) = 0

\* C6: a batch of N requests is answered by N envelopes, the one at position i
\* answering request i whatever order the dispatches completed in; a dispatch
\* that rejected is answered by an error with code -32000.
C6_BatchSameLengthSameOrder ==
    BatchDone =>
        /\ Len(webhookResponse) = Len(body.items)
        /\ \A i \in 1..Len(body.items) :
               /\ IsEnvelope(webhookResponse[i])
               /\ IF settled[i].status = "rejected"
                  THEN IsErrorWith(webhookResponse[i], -32000)
                  ELSE /\ webhookResponse[i].id = body.items[i].id
                       /\ Fulfilled(webhookResponse[i]) =
                              HandleMCPRequest(body.items[i], tools, creds,
                                               ResponseOf(i))

\* C6 witness: a 3-item batch with a rejected dispatch and two tool calls that
\* got different answers from the target API
C6_Witness ==
    /\ BatchDone
    /\ Len(body.items) = 3
    /\ \E i \in 1..3 : settled[i].status = "rejected"
    /\ Len(httpLog) = 2
    /\ httpLog[1].response # httpLog[2].response

\* C7: every response carries the id of the request it answers, for a single
\* request and for every element of a batch, the synthetic -32000 included.
C7_EveryResponseEchoesId ==
    wpc = "done" =>
        IF body.isArray
        THEN \A i \in 1..Len(body.items) : webhookResponse[i].id = body.items[i].id
        ELSE webhookResponse.id = body.items[1].id

C9_UnknownToolIsNotFound ==
    /\ wpc = "done" =>
           \A i \in 1..Len(body.items) :
               CallsUnknownTool(i) =>
                   /\ (IF body.isArray THEN webhookResponse[i] ELSE webhookResponse)
                          = MakeError(body.items[i].id, -32601,
                                <<"Tool '", body.items[i].params.name, "' not found">>)
                   /\ \A j \in 1..Len(httpLog) : httpLog[j].request.item # i
    /\ (wpc = "threw" /\ settled # <<>>) =>
           \A i \in 1..Len(body.items) : ~CallsUnknownTool(i)

\* the downstream invocation of exchange e failed
DownstreamFailed(e) ==
    \/ e.response.kind = "transport_error"
    \/ e.response.kind = "decode_error"
    \/ e.response.kind = "response" /\ ~ResOk(e.response)

\* C10: a tools/call on an existing tool whose downstream invocation failed
\* (transport error, decode failure, status outside 2xx) is answered by an
\* error with code -32603, never by a result.
C10_DownstreamFailureIsInternalError ==
    wpc = "done" =>
        \A j \in 1..Len(httpLog) :
            DownstreamFailed(httpLog[j]) =>
                LET i == httpLog[j].request.item
                    r == IF body.isArray THEN webhookResponse[i] ELSE webhookResponse
                IN  IsErrorWith(r, -32603)

\* the delivery's cache key
NodeKey == CacheKey(rev, NodeUrl, NodeFilter)

\* C11: every request of a delivery is answered by a JSON-RPC envelope
\* (version, id, one of result and error), and the webhook throws only when
\* the refresh failed while the cache held no entry for the key: never
\* because of absent credentials, an empty base URL or a failing handler.
C11_ThrowsOnlyOnFailedFirstLoad ==
    /\ wpc = "done" =>
           IF body.isArray
           THEN \A i \in 1..Len(body.items) : IsEnvelope(webhookResponse[i])
           ELSE IsEnvelope(webhookResponse)
    /\ wpc = "threw" => NodeKey \notin DOMAIN toolsCache

\* number of outbound requests sent for item i of the body
SentFor(log, i) == Cardinality({j \in 1..Len(log) : log[j].request.item = i})

\* 1 for a tools/call of a listed tool with a base URL, 0 for anything else
ExpectedSent(request, toolList, credentials) ==
    IF /\ request.method = "tools/call"
       /\ FindTool(toolList, request.params.name) # 0
       /\ credentials.baseUrl # ""
    THEN 1 ELSE 0

CallSucceeded ==
    /\ cpc = "answered"
    /\ xcall.answer.kind = "response"
    /\ "result" \in DOMAIN xresult

\* response.data.data if present, else response.data
PayloadOf(data) ==
    IF data.t = "object" /\ data.inner.t \notin {"undefined", "null"}
    THEN data.inner
    ELSE data

Tagged(p, mcpType) == p.t = "object" /\ p.mcpType = mcpType /\ p.base64 # ""

\* C13: a successful tools/call result holds exactly one content block, made
\* from p = response.data.data if present, else response.data: a string
\* gives a text block of that string, a tagged image or audio with base64
\* gives an image or audio block (mimeType image/png or audio/mpeg unless
\* given), anything else a text block of its JSON text; the type is one of
\* text, image, audio and the conversion never fails.
C13_OneContentBlockByPayload ==
    CallSucceeded =>
        LET p == PayloadOf(xcall.answer.data)
            content == xresult.result.content
            block == content[1]
        IN  /\ Len(content) = 1
            /\ block.type \in {"text", "image", "audio"}
            /\ IF p.t = "string"
               THEN block = [type |-> "text", text |-> p.s]
               ELSE IF Tagged(p, "image")
               THEN block = [type |-> "image", data |-> p.base64,
                             mimeType |-> IF p.mimeType = "" THEN "image/png"
                                          ELSE p.mimeType]
               ELSE IF Tagged(p, "audio")
               THEN block = [type |-> "audio", data |-> p.base64,
                             mimeType |-> IF p.mimeType = "" THEN "audio/mpeg"
                                          ELSE p.mimeType]
               ELSE block = [type |-> "text", text |-> <<"JSON.stringify", p>>]

\* C13 witness: an image without mimeType was answered as an image/png block
C13_Witness ==
    /\ CallSucceeded
    /\ xcall.answer.data = PayloadObject("image", "AAAA", "", Undefined)
    /\ xresult.result.content[1].type = "image"
    /\ xresult.result.content[1].mimeType = "image/png"

\* C14: the tool compiled from GET /pets/{id} with the required path
\* parameter id, called with {id: 42} and base URL https://api.example.com,
\* sends exactly GET https://api.example.com/pets/42 without a body; and for
\* every compiled tool each {name} of the path is replaced by the supplied
\* argument before the request is sent.
C14_PathPlaceholdersFilled ==
    cpc = "called" =>
        /\ \A i \in 1..Len(xtool.path) :
               (xtool.path[i].kind = "ph" /\ xcall.args[xtool.path[i].s] # Undefined)
                   => xsent.url.path[i] =
                          Lit(EncodeURIComponent(xcall.args[xtool.path[i].s]))
        /\ (/\ xtool.method = "GET"
            /\ xtool.path = PathPetId
            /\ xcall.args = [NoArgs EXCEPT !["id"] = Num("42")])
           => /\ xsent.method = "GET"
              /\ xsent.url = [base |-> "https://api.example.com",
                              path |-> <<Lit("pets"), Lit("42")>>,
                              query |-> <<>>]
              /\ xsent.body = Undefined

\* the operations of the compiled document that are well formed and have a
\* valid HTTP method
WellFormed(e) == e.kind = "op" /\ e.method \in validMethods /\ ~e.operation.unprintableId

\* the compiler emitted a tool for entry e (an entry is known by its path)
Emitted(e) == \E i \in 1..Len(ctools.tools) : ctools.tools[i].path = e.path

\* the node's filter asks for no filtering: empty, or holding "all"
NoFiltering(requested) == Len(requested) = 0 \/ Contains(requested, StrAll)

\* some tag of the operation contains some requested tag, letter case ignored
TagMatches(operation, requested) ==
    \E i \in 1..Len(operation.tags), j \in 1..Len(requested) :
        Includes(ToLowerCase(operation.tags[i]), ToLowerCase(requested[j]))

\* C15: with a filter that is neither empty nor "all", a well-formed operation
\* with a valid method is emitted exactly when one of its tags contains one of
\* the requested tags, letter case ignored on both sides, for one requested
\* tag and for a list of several.
C15_FilterMatchesAnyTagAnyCase ==
    (cpc = "compiled" /\ ~NoFiltering(cfilter.requested)) =>
        \A i \in 1..Len(cdoc.entries) :
            WellFormed(cdoc.entries[i]) =>
                (Emitted(cdoc.entries[i])
                    <=> TagMatches(cdoc.entries[i].operation, cfilter.requested))

\* C16: with a filter that is empty, absent or "all" no tag filtering is
\* applied: every well-formed operation with a valid method is emitted,
\* whatever its tags, operations without tags included.
C16_NoFilterEmitsEveryOperation ==
    (cpc = "compiled" /\ NoFiltering(cfilter.requested)) =>
        \A i \in 1..Len(cdoc.entries) :
            WellFormed(cdoc.entries[i]) => Emitted(cdoc.entries[i])

\* the entries the compiler keeps: well formed, and passing the tag test
Kept ==
    SelectSeq(cdoc.entries,
              LAMBDA e : WellFormed(e) /\ PassesFilter(e.operation, cfilter.passed))

\* C17: for every document (no object, no paths, a path that is no object, a
\* key that is no method, an operation that is no object or that cannot be
\* converted) compile returns a list and does not throw; malformed entries
\* are skipped and every other operation that passes the filter is emitted,
\* in document order.
C17_CompileNeverThrows ==
    cpc = "compiled" =>
        /\ ~ctools.threw
        /\ Len(ctools.tools) = Len(Kept)
        /\ \A i \in 1..Len(Kept) :
               /\ ctools.tools[i].path = Kept[i].path
               /\ ctools.tools[i].method = ToUpperCase(Kept[i].method)

\* C17 witness: an operation that is no object, then a tagged operation that
\* is emitted
C17_Witness ==
    /\ cpc = "compiled"
    /\ cdoc.entries = <<EntryBadOp, EntryOrders>>
    /\ Len(ctools.tools) = 1
    /\ ctools.tools[1].path = EntryOrders.path

C19_NameFromPathWithoutOperationId ==
    cpc = "compiled" =>
        \A i, j \in 1..Len(ctools.tools) :
            (/\ i # j
             /\ ~ctools.tools[i].hasId
             /\ ~ctools.tools[j].hasId
             /\ ctools.tools[i].path # ctools.tools[j].path)
                => ctools.tools[i].name # ctools.tools[j].name

\* the places of the compiled list that hold a tool of this name
Named(name) == {i \in 1..Len(ctools.tools) : ctools.tools[i].name = name}

\* C20: tools of the same name are all kept by compilation and all shown by
\* tools/list, and a tools/call of that name invokes the one compiled last.
C20_LastCompiledToolWins ==
    /\ cpc = "listed" =>
           /\ Len(ctools.tools) = Len(Kept)
           /\ xresult.result.tools =
                  [i \in 1..Len(ctools.tools) |-> ListedTool(ctools.tools[i])]
    /\ cpc = "called" =>
           \A i \in Named(xcall.request.params.name) :
               (\A j \in Named(xcall.request.params.name) : j <= i)
                   => xtool = ctools.tools[i]

(***************************************************************************)
(* Claims about parameter descriptors and input schemas                    *)
(***************************************************************************)
\* operation.requestBody.content is present
HasRequestBodyContent(operation) ==
    /\ operation.requestBody.t = "object"
    /\ GetKey(operation.requestBody.fields, "content") \notin {Undefined, Null}

\* the descriptor list a tool is to carry: the operation's parameters in
\* source order, then one body descriptor if requestBody.content is present
ExpectedDescriptors(operation) ==
    operation.parameters
        \o (IF HasRequestBodyContent(operation)
            THEN <<[name |-> "body", in |-> "body", required |-> FALSE]>>
            ELSE <<>>)

\* the entry of the compiled document a tool was made from
SourceEntries(tool) ==
    {j \in 1..Len(cdoc.entries) :
        /\ cdoc.entries[j].kind = "op"
        /\ cdoc.entries[j].path = tool.path
        /\ ToUpperCase(cdoc.entries[j].method) = tool.method}

\* C21: every compiled tool carries the parameter descriptors of its
\* operation in source order, followed by exactly one body descriptor when
\* requestBody.content is present and by none otherwise (never two body
\* descriptors), and a call of a compiled tool binds the arguments by
\* location, never handing the whole argument object over as the body.
C21_ToolsCarryDescriptors ==
    /\ (cpc = "compiled" /\ cdoc.kind = "object") =>
          \A i \in 1..Len(ctools.tools) :
              LET tool == ctools.tools[i]
              IN  /\ tool.hasParameters
                  /\ Cardinality({k \in 1..Len(tool.parameters) :
                                     tool.parameters[k].in = "body"}) <= 1
                  /\ \A j \in SourceEntries(tool) :
                         tool.parameters = ExpectedDescriptors(cdoc.entries[j].operation)
    /\ cpc = "called" => xtool.hasParameters

\* C22: the input schema of a compiled tool is made from the path, query and
\* header parameters when the method is get, delete or head; for any other
\* method from the request-body schema when one is declared and from the
\* parameters when none is.
C22_InputSchemaSourceByMethod ==
    spc = "tool" =>
        \A i \in 1..Len(sout) :
            sout[i].inputSchema =
                CreateInputSchema(SchemaSourceByMethod(sin.method, sin.operation))

\* the keys of schema.properties and the strings of schema.required
PropertyNames(schema) ==
    {ObjectEntries(Prop(schema, "properties"))[i][1] :
        i \in 1..Len(ObjectEntries(Prop(schema, "properties")))}
RequiredNames(schema) ==
    {OriginalRequired(schema)[i].s :
        i \in {k \in 1..Len(OriginalRequired(schema)) :
                  OriginalRequired(schema)[k].t = "string"}}

\* C23: in an input schema made by createInputSchema, required lists a name
\* exactly when the name is an emitted property, is listed in the required
\* array of the source schema and is not flagged optional on the property; so
\* required is a subset of the keys of properties (also in the input schema
\* of every tool).
C23_RequiredExactlyUnflaggedListed ==
    /\ spc = "schema" =>
          /\ \A name \in PropertyNames(sout) \cup RequiredNames(sout)
                             \cup RequiredNames(sin) :
                 name \in RequiredNames(sout) <=>
                     /\ name \in PropertyNames(sout)
                     /\ name \in RequiredNames(sin)
                     /\ ~IsOptional(Prop(Prop(sin, "properties"), name))
          /\ RequiredNames(sout) \subseteq PropertyNames(sout)
    /\ spc = "tool" =>
          \A i \in 1..Len(sout) :
              RequiredNames(sout[i].inputSchema)
                  \subseteq PropertyNames(sout[i].inputSchema)

\* C23 witness: a and b are listed as required, a is flagged optional and b
\* is no object; required is exactly [b]
C23_Witness ==
    /\ spc = "schema"
    /\ RequiredNames(sin) = {"a", "b"}
    /\ IsOptional(Prop(Prop(sin, "properties"), "a"))
    /\ Prop(Prop(sin, "properties"), "b") = Str("text")
    /\ PropertyNames(sout) = {"a", "b"}
    /\ RequiredNames(sout) = {"b"}

\* the keys a cleaned schema node may have: type, the descriptive fields
\* (example and examples alike) and the structural keys
SchemaKeys ==
    {"type", "description", "examples", "example", "default", "enum", "pattern",
     "minLength", "maxLength", "minimum", "maximum", "format", "multipleOf",
     "exclusiveMinimum", "exclusiveMaximum",
     "properties", "required", "items", "oneOf", "anyOf", "allOf"}

\* node and every schema node below it (under properties, items, oneOf,
\* anyOf, allOf) is an object with no key outside SchemaKeys
RECURSIVE OnlySchemaKeys(_)
OnlySchemaKeys(node) ==
    /\ node.t = "object"
    /\ \A i \in 1..Len(node.fields) :
           LET key == node.fields[i][1]
               value == node.fields[i][2]
           IN  /\ key \in SchemaKeys
               /\ key = "properties" =>
                      /\ value.t = "object"
                      /\ \A k \in 1..Len(value.fields) :
                             OnlySchemaKeys(value.fields[k][2])
               /\ key = "items" => OnlySchemaKeys(value)
               /\ key \in {"oneOf", "anyOf", "allOf"} =>
                      /\ value.t = "array"
                      /\ \A k \in 1..Len(value.items) : OnlySchemaKeys(value.items[k])

\* C24: cleanProperty returns {type: "string"} for an input that is no object
\* and always returns a value; for an object, the result and every schema
\* node nested in it have only type, allow-listed descriptive fields and the
\* structural keys: no other key of the source survives at any depth.
C24_CleanKeepsOnlySchemaKeys ==
    spc = "cleaned" =>
        /\ ~IsObject(sin) => sout = Obj(<<<<"type", Str("string")>>>>)
        /\ OnlySchemaKeys(sout)

\* C24 witness: an object with x-internal, with a nested property that has
\* x-internal and items {nullable}, and with items {readOnly} was cleaned
C24_Witness ==
    /\ spc = "cleaned"
    /\ IsObject(sin)
    /\ Prop(sin, "x-internal") = Bool(TRUE)
    /\ Prop(Prop(Prop(sin, "properties"), "inner"), "x-internal") = Bool(TRUE)
    /\ Prop(Prop(sin, "items"), "readOnly") = Bool(TRUE)
    /\ Prop(sout, "items") = Obj(<<<<"type", Str("string")>>>>)
    /\ Prop(Prop(Prop(sout, "properties"), "inner"), "items")
           = Obj(<<<<"type", Str("string")>>>>)

KnownLocations == {"path", "query", "header", "cookie", "body", "requestBody"}

RefreshesNow(c, k) ==
    /\ calls[c].pc = "await"
    /\ calls[c].cacheKey = k
    /\ calls'[c].pc = "done"
    /\ calls'[c].refreshed

\* C27: no step removes a cache entry; the entry of a key changes only in a
\* step in which a refresh for that same key succeeds, and then becomes that
\* refresh's tool list with the current time; a cache hit, a failed refresh
\* and any step of a call for another key leave its tool list and timestamp
\* as they are; the timestamp of an entry never decreases.
C27_EntryChangesOnlyByOwnRefresh ==
    [][/\ DOMAIN toolsCache \subseteq DOMAIN toolsCache'
       /\ \A k \in DOMAIN toolsCache :
              /\ toolsCache'[k].timestamp >= toolsCache[k].timestamp
              /\ toolsCache'[k] # toolsCache[k] =>
                     \E c \in Slots :
                         /\ RefreshesNow(c, k)
                         /\ toolsCache'[k] = [timestamp |-> now,
                                              tools |-> calls'[c].fetched]
       /\ \A c \in Slots :
              (calls[c].pc # "done" /\ calls'[c].pc = "done" /\ ~calls'[c].refreshed)
                  => toolsCache' = toolsCache
       /\ \A c \in Slots, k \in DOMAIN toolsCache :
              (calls'[c] # calls[c] /\ calls'[c].cacheKey # k)
                  => toolsCache'[k] = toolsCache[k]]_vars

\* C27 witness: a refresh of one key succeeded, a later refresh of another
\* key succeeded too, and the first entry still has its list and timestamp
C27_Witness ==
    \E c, d \in Slots :
        /\ calls[c].refreshed
        /\ calls[d].refreshed
        /\ calls[c].cacheKey # calls[d].cacheKey
        /\ calls[c].endNow < calls[d].endNow
        /\ calls[c].fetched # calls[d].fetched
        /\ toolsCache[calls[c].cacheKey] =
               [timestamp |-> calls[c].endNow, tools |-> calls[c].fetched]
        /\ toolsCache[calls[d].cacheKey] =
               [timestamp |-> calls[d].endNow, tools |-> calls[d].fetched]

\* the calls that completed a successful refresh of key k
Refreshers(k) == {c \in Slots : calls[c].refreshed /\ calls[c].cacheKey = k}

\* the one of them that completed last
LastRefresher(k) ==
    CHOOSE c \in Refreshers(k) :
        \A d \in Refreshers(k) : calls[d].endWrites <= calls[c].endWrites

\* C28: however concurrent loadTools calls on one key interleave, the entry
\* of the key is at every moment the whole tool list of one successful
\* refresh together with the time that refresh completed (never a mix of
\* two refreshes), and it is the result of the successful refresh that
\* completed last, in particular once all calls have finished.
C28_EntryIsLastCompletedRefresh ==
    /\ \A k \in DOMAIN toolsCache : Refreshers(k) # {}
    /\ \A c \in Slots :
           calls[c].refreshed =>
               /\ calls[c].cacheKey \in DOMAIN toolsCache
               /\ toolsCache[calls[c].cacheKey] =
                      [timestamp |-> calls[LastRefresher(calls[c].cacheKey)].endNow,
                       tools |-> calls[LastRefresher(calls[c].cacheKey)].fetched]

\* C28 witness: two refreshes of one key were in flight together, the one
\* started second completed first, they fetched different lists at different
\* times, and the entry is the result of the one that completed last
C28_Witness ==
    \E c, d \in Slots :
        /\ c < d
        /\ calls[c].refreshed
        /\ calls[d].refreshed
        /\ calls[c].cacheKey = calls[d].cacheKey
        /\ calls[d].endWrites < calls[c].endWrites
        /\ calls[d].endNow < calls[c].endNow
        /\ calls[d].startNow <= calls[c].endNow
        /\ calls[c].fetched # calls[d].fetched
        /\ \A e \in Slots : calls[e].pc = "done"
        /\ toolsCache[calls[c].cacheKey] =
               [timestamp |-> calls[c].endNow, tools |-> calls[c].fetched]

(***************************************************************************)
(* Claims about a delivery beside other cache writers (checked under       *)
(* SpecRace)                                                               *)
(***************************************************************************)
\* the outbound requests of a log
RequestsOf(log) == [j \in 1..Len(log) |-> log[j].request]

\* C29: every request of one webhook payload is dispatched against the one
\* tool list the delivery resolved before dispatch: the list the delivery
\* holds does not change when the cache entry of its key is overwritten while
\* its items are in flight, every item that is answered without a call out
\* is answered from that list, and every call out is for a tool of that list.
C29_OneToolListPerDelivery ==
    [][/\ (wpc \in {"loaded", "awaiting"} /\ wpc' # "idle") => tools' = tools
       /\ wpc' \in {"awaiting", "done"} =>
              /\ \A i \in 1..Len(body'.items) :
                     LET h == HandleSync(body'.items[i], tools', creds')
                     IN  h.status # "pending" => settled'[i] = h
              /\ RequestsOf(httpLog') =
                     RequestsOf(Outbound(body'.items, 1, tools', creds'))]_vars

\* C29 witness: a batch with tools/list and a call of add_pet was dispatched
\* against the list that has add_pet, the cache entry of the key was replaced
\* by the list without it, and the batch was answered from the held list
C29_Witness ==
    /\ BatchDone
    /\ tools = <<ToolPets, ToolAdd>>
    /\ NodeKey \in DOMAIN toolsCache
    /\ toolsCache[NodeKey].tools = <<ToolPets>>
    /\ Len(body.items) >= 2
    /\ body.items[1].id = "r2"
    /\ body.items[2].id = "r7"
    /\ webhookResponse[1] = HandleSync(body.items[1], tools, creds).value
    /\ \E j \in 1..Len(httpLog) : httpLog[j].request.item = 2

(***************************************************************************)
(* Claims about the cache key (checked under SpecKeys)                     *)
(***************************************************************************)
\* the set of tags a filterTag argument asks for ("all" and "" ask for none)
TagSet(filterTag) ==
    IF filterTag.isArray THEN {filterTag.arr[i] : i \in 1..Len(filterTag.arr)}
    ELSE IF filterTag.str \in {<<>>, StrAll} THEN {}
    ELSE {filterTag.str}

\* calls c and d ask for the same source URL and the same set of tags
SamePair(c, d) ==
    /\ calls[c].openapiUrl = calls[d].openapiUrl
    /\ TagSet(calls[c].filterTag) = TagSet(calls[d].filterTag)

\* C30: two loadTools calls use the same cache entry only if they have the
\* same source URL and the same set of filter tags, so a call that is served
\* from the cache gets a list that was compiled for its own (URL, filter).
C30_CacheKeyInjective ==
    \A c, d \in Slots :
        (/\ calls[c].pc # "idle"
         /\ calls[d].pc # "idle"
         /\ calls[c].cacheKey = calls[d].cacheKey)
            => SamePair(c, d)

====
